---- MODULE Spec2Model ----
(***************************************************************************)
(* The identity service (register / login / refresh-token / logout) and    *)
(* the todo service (JWT verification middleware and the todo routes) of   *)
(* fullstack-devops, as one state machine.                                 *)
(*                                                                         *)
(* A handler is split where its code awaits the store: the statements      *)
(* between two awaits run without interruption on the event loop, the      *)
(* store executes one SQL statement atomically, and other requests run     *)
(* between the steps.                                                      *)
(***************************************************************************)
EXTENDS Integers, Sequences, FiniteSets, TLC

\* ------------------------------------------------------------------ bounds
\* number of values the users.id sequence hands out
MaxUserId == 2
\* number of refresh-token values crypto.randomBytes draws
MaxTokens == 3
\* number of clock advances
MaxTicks == 3
\* identity-service requests in flight at once
MaxHandlers == 2
\* number of values the todos.id sequence hands out
MaxTodoId == 2

\* ------------------------------------------------------- program constants
\* jwt.sign(..., { expiresIn: '15m' }): seconds
AccessTtlSec == 900
\* 7 * 24 * 60 * 60 * 1000: milliseconds
RefreshTtlMs == 604800000
\* maxAge of the accessToken cookie: 15 * 60 * 1000 milliseconds
AccessCookieMaxAge == 900000
\* maxAge of the refreshToken cookie, in milliseconds
RefreshCookieMaxAge == 604800000

\* process.env.JWT_SECRET, the same value in both services
JWT_SECRET == "JWT_SECRET"

\* ----------------------------------------------------------- value shapes
\* An absent value (undefined, SQL NULL) and a present one.
None == <<>>
Some(x) == <<x>>
Val(o) == o[1]

\* A refresh token is a string: 0 is the empty string, n >= 1 is the n-th
\* value drawn by crypto.randomBytes(64).toString('hex'), ForeignToken is a
\* non-empty string the service never issued.
EmptyString == 0
ForeignToken == -1

\* JavaScript's !x for an optional string cookie / body field.
Falsy(o) == o = None \/ o = Some(EmptyString)
FalsyStr(s) == s = ""

Usernames == {"", "alice", "bob"}
Emails == {"", "a@x.com", "b@x.com"}
Passwords == {"", "pw1", "pw2"}

\* BcryptHash that keeps the password as it is.
BcryptHash_Plain(password) == <<"plain", password>>

\* bcrypt.hash(password, 10): the stored secret is not the password
BcryptHash(password) == <<"bcrypt", password>>
\* bcrypt.compare(password, hash)
BcryptCompare(password, hashed) == hashed = BcryptHash(password)

\* ------------------------------------------------------------ access token
\* JwtSign with the lifetime of one hour the first version of the identity
\* service gave its tokens.
JwtSign_OneHour(userId, username, secret, ms) ==
    [kind |-> "jwt", userId |-> userId, username |-> username,
     iat |-> ms \div 1000, exp |-> (ms \div 1000) + 3600, sig |-> secret]

\* jwt.sign(payload, secret, { expiresIn: '15m' }) at Date.now() = ms:
\* iat = floor(ms / 1000), exp = iat + 900, signed with the secret.
JwtSign(userId, username, secret, ms) ==
    [kind |-> "jwt", userId |-> userId, username |-> username,
     iat |-> ms \div 1000, exp |-> (ms \div 1000) + AccessTtlSec, sig |-> secret]

\* JwtVerify reading the payload without checking the signature (jwt.decode).
JwtVerify_NoSignature(token, secret, ms) ==
    /\ token.kind = "jwt"
    /\ (ms \div 1000) < token.exp

\* jwt.verify(token, secret) at Date.now() = ms: TRUE when it returns the
\* payload, FALSE when it throws (malformed, unsigned, wrong signature, or
\* floor(ms / 1000) >= exp).
JwtVerify(token, secret, ms) ==
    /\ token.kind = "jwt"
    /\ token.sig = secret
    /\ (ms \div 1000) < token.exp

\* ------------------------------------------------------- credential store
VARIABLES
    now,         \* Date.now(), milliseconds since the services started
    ticks,       \* number of clock advances so far
    users,       \* the users table of the identity service: id -> row
    nextUserId,  \* the users.id sequence
    nextToken,   \* number of the next crypto.randomBytes draw
    minted,      \* the access tokens jwt.sign has produced, each with its time
    rotations,   \* refresh token -> number of refreshes presenting it that answered 200
    h,           \* identity-service requests in flight, by connection
    client,      \* a browser: its cookie jar and the credentials its user types
    log,         \* the requests that browser has made, with their responses
    todos,       \* the todos table of the todo service: id -> row
    nextTodoId,  \* the todos.id sequence
    pending,     \* todo-service requests awaiting their statement, by connection
    req,         \* the request a handler is serving, or has served last
    sent         \* the responses written to that request, in order

\* 'SELECT * FROM users WHERE email=$1': the ids of the matching rows
SelectByEmail(tbl, email) == {id \in DOMAIN tbl : tbl[id].email = email}

\* 'SELECT * FROM users WHERE refresh_token=$1': NULL matches nothing
SelectByRefreshToken(tbl, tok) ==
    {id \in DOMAIN tbl : tbl[id].refresh_token = Some(tok)}

\* UpdateRefreshToken keeping a refresh token that is already stored and
\* only extending its expiry.
UpdateRefreshToken_KeepsCurrent(tbl, tok, expiry, id) ==
    [i \in DOMAIN tbl |->
        IF i = id
        THEN [tbl[i] EXCEPT !.refresh_token = IF @ = None THEN Some(tok) ELSE @,
                            !.refresh_token_expires = Some(expiry)]
        ELSE tbl[i]]

\* 'UPDATE users SET refresh_token=$1, refresh_token_expires=$2 WHERE id=$3'
UpdateRefreshToken(tbl, tok, expiry, id) ==
    [i \in DOMAIN tbl |->
        IF i = id
        THEN [tbl[i] EXCEPT !.refresh_token = Some(tok),
                            !.refresh_token_expires = Some(expiry)]
        ELSE tbl[i]]

\* ClearRefreshToken that sets refresh_token to NULL and leaves
\* refresh_token_expires as it is.
ClearRefreshToken_TokenOnly(tbl, tok) ==
    [i \in DOMAIN tbl |->
        IF tbl[i].refresh_token = Some(tok)
        THEN [tbl[i] EXCEPT !.refresh_token = None]
        ELSE tbl[i]]

\* ClearRefreshToken of a logout that only clears the cookies.
ClearRefreshToken_Nothing(tbl, tok) == tbl

\* 'UPDATE users SET refresh_token=NULL, refresh_token_expires=NULL
\*  WHERE refresh_token=$1'
ClearRefreshToken(tbl, tok) ==
    [i \in DOMAIN tbl |->
        IF tbl[i].refresh_token = Some(tok)
        THEN [tbl[i] EXCEPT !.refresh_token = None,
                            !.refresh_token_expires = None]
        ELSE tbl[i]]

\* UniqueViolation of a table whose only unique column is email.
UniqueViolation_EmailOnly(tbl, username, email) ==
    \E i \in DOMAIN tbl : tbl[i].email = email

\* The unique constraints on users.username and users.email (error 23505).
UniqueViolation(tbl, username, email) ==
    \E i \in DOMAIN tbl : tbl[i].username = username \/ tbl[i].email = email

\* 'INSERT INTO users(username, email, password) VALUES($1, $2, $3)' at
\* time ms: created_at takes its default, the other columns are NULL
InsertUser(tbl, id, username, email, hashed, ms) ==
    [i \in DOMAIN tbl \cup {id} |->
        IF i = id
        THEN [id |-> id, username |-> username, email |-> email,
              password |-> hashed, created_at |-> ms,
              refresh_token |-> None, refresh_token_expires |-> None]
        ELSE tbl[i]]

\* RefreshExpired comparing with >=: the token is refused at its expiry
\* instant already.
RefreshExpired_AtOrAfter(row, ms) == ms >= Val(row.refresh_token_expires)

\* RefreshExpired without the comparison: the expiry is never looked at.
RefreshExpired_Never(row, ms) == FALSE

\* new Date() > new Date(user.refresh_token_expires)
RefreshExpired(row, ms) == ms > Val(row.refresh_token_expires)

\* ------------------------------------------------------ identity service
\* What a handler step yields: status 0 while the handler goes on to its next
\* await, otherwise the response (status, body, the cookies set), and in
\* both cases the users table after the step and the number of store queries
\* the step issued.
\* res.json({ error: msg }), res.json({ message: msg })
Error(msg) == [error |-> msg]
Message(msg) == [message |-> msg]

Answer(code, msg, tbl, n) ==
    [status |-> code, body |-> msg, setAccess |-> None, setRefresh |-> None,
     users |-> tbl, queries |-> n, userId |-> 0, accessToken |-> None,
     newRefresh |-> None, newExpiry |-> None]

\* Issue signing the access token with a secret the middlewares do not hold.
Issue_WrongSecret(tbl, id, ms, draw) ==
    [Answer(0, Message(""), tbl, 1) EXCEPT
        !.userId = id,
        !.accessToken = Some(JwtSign(id, tbl[id].username, "REFRESH_SECRET", ms)),
        !.newRefresh = Some(draw),
        !.newExpiry = Some(ms + RefreshTtlMs)]

\* Issue with a refresh token derived from the account instead of drawn.
Issue_PerAccountToken(tbl, id, ms, draw) ==
    [Answer(0, Message(""), tbl, 1) EXCEPT
        !.userId = id,
        !.accessToken = Some(JwtSign(id, tbl[id].username, JWT_SECRET, ms)),
        !.newRefresh = Some(id),
        !.newExpiry = Some(ms + RefreshTtlMs)]

\* The statements of login and refresh between the SELECT and the UPDATE:
\* jwt.sign, crypto.randomBytes, the expiry seven days from now.
Issue(tbl, id, ms, draw) ==
    [Answer(0, Message(""), tbl, 1) EXCEPT
        !.userId = id,
        !.accessToken = Some(JwtSign(id, tbl[id].username, JWT_SECRET, ms)),
        !.newRefresh = Some(draw),
        !.newExpiry = Some(ms + RefreshTtlMs)]

\* POST /register
RegisterResult(tbl, seq, username, email, password, ms) ==
    IF FalsyStr(username) \/ FalsyStr(email) \/ FalsyStr(password)
    THEN Answer(400, Error("Username, email, and password required"), tbl, 0)
    ELSE IF UniqueViolation(tbl, username, email)
         THEN Answer(400, Error("Username or email already exists"), tbl, 1)
         ELSE [Answer(201, [id |-> seq, username |-> username, email |-> email],
                      InsertUser(tbl, seq, username, email, BcryptHash(password), ms), 1)
                  EXCEPT !.userId = seq]

\* POST /login, up to the first await
LoginBeginResult(tbl, email, password) ==
    IF FalsyStr(email) \/ FalsyStr(password)
    THEN Answer(400, Error("Email and password required"), tbl, 0)
    ELSE Answer(0, Message(""), tbl, 0)

\* LoginSelectResult telling an unknown email apart from a wrong password.
LoginSelectResult_UserNotFound(tbl, rows, id, password, ms, draw) ==
    IF rows = {}
    THEN Answer(404, Error("User not found"), tbl, 1)
    ELSE IF ~BcryptCompare(password, tbl[id].password)
         THEN Answer(400, Error("Invalid credentials"), tbl, 1)
         ELSE Issue(tbl, id, ms, draw)

\* POST /login from the SELECT by email to the UPDATE: rows are the ids the
\* SELECT returned, id is rows[0]
LoginSelectResult(tbl, rows, id, password, ms, draw) ==
    IF rows = {}
    THEN Answer(400, Error("Invalid credentials"), tbl, 1)
    ELSE IF ~BcryptCompare(password, tbl[id].password)
         THEN Answer(400, Error("Invalid credentials"), tbl, 1)
         ELSE Issue(tbl, id, ms, draw)

\* POST /refresh-token, up to the first await
RefreshBeginResult(tbl, cookie) ==
    IF Falsy(cookie)
    THEN Answer(401, Message("No refresh token provided"), tbl, 0)
    ELSE Answer(0, Message(""), tbl, 0)

\* POST /refresh-token from the SELECT by refresh token to the UPDATE
RefreshSelectResult(tbl, rows, id, ms, draw) ==
    IF rows = {}
    THEN Answer(401, Message("Invalid refresh token"), tbl, 1)
    ELSE IF RefreshExpired(tbl[id], ms)
         THEN Answer(401, Message("Refresh token expired"), tbl, 1)
         ELSE Issue(tbl, id, ms, draw)

\* login and refresh from the UPDATE on: the new refresh token is stored,
\* the two cookies are set, the 200 is sent
StoreResult(tbl, r, msg) ==
    [Answer(200, msg, UpdateRefreshToken(tbl, Val(r.newRefresh), Val(r.newExpiry),
                                         r.userId), 1)
        EXCEPT !.setAccess = r.accessToken, !.setRefresh = r.newRefresh,
               !.userId = r.userId]

\* The options login and refresh pass to res.cookie; production is
\* process.env.NODE_ENV === "production"; an option the call does not give
\* is None.
CookieOptions(maxAge, production) ==
    [httpOnly |-> TRUE, secure |-> production, maxAge |-> maxAge, path |-> "/",
     sameSite |-> None]

\* The Set-Cookie headers of the response r of login or refresh.
SetCookies(r, production) ==
    IF r.status # 200 THEN {}
    ELSE {[name |-> "accessToken", value |-> r.setAccess,
           options |-> CookieOptions(AccessCookieMaxAge, production)],
          [name |-> "refreshToken", value |-> r.setRefresh,
           options |-> CookieOptions(RefreshCookieMaxAge, production)]}

\* LogoutResult that reads req.cookies.refreshToken || req.body.refreshToken.
LogoutResult_CookieFirst(tbl, bodyTok, cookie) ==
    LET refreshToken == IF Falsy(cookie) THEN bodyTok ELSE cookie IN
    IF Falsy(refreshToken)
    THEN Answer(400, Message("Refresh token required"), tbl, 0)
    ELSE [Answer(200, Message("Logged out successfully"),
                 ClearRefreshToken(tbl, Val(refreshToken)), 1)
             EXCEPT !.setAccess = Some("cleared"), !.setRefresh = Some("cleared")]

\* LogoutResult that clears the stored token and answers 200 without
\* res.clearCookie.
LogoutResult_KeepsCookies(tbl, bodyTok, cookie) ==
    LET refreshToken == IF Falsy(bodyTok) THEN cookie ELSE bodyTok IN
    IF Falsy(refreshToken)
    THEN Answer(400, Message("Refresh token required"), tbl, 0)
    ELSE Answer(200, Message("Logged out successfully"),
                ClearRefreshToken(tbl, Val(refreshToken)), 1)

\* POST /logout
LogoutResult(tbl, bodyTok, cookie) ==
    LET refreshToken == IF Falsy(bodyTok) THEN cookie ELSE bodyTok IN
    IF Falsy(refreshToken)
    THEN Answer(400, Message("Refresh token required"), tbl, 0)
    ELSE [Answer(200, Message("Logged out successfully"),
                 ClearRefreshToken(tbl, Val(refreshToken)), 1)
             EXCEPT !.setAccess = Some("cleared"), !.setRefresh = Some("cleared")]

\* IdentityAuthMiddleware that also wants the account of the token to hold a
\* refresh token, so that a logout ends the access token too.
IdentityAuthMiddleware_ChecksSession(cookie, ms) ==
    IF cookie = None \/ Val(cookie).kind = "empty"
    THEN [status |-> 401, body |-> Message("Unauthorized"), user |-> None]
    ELSE IF /\ JwtVerify(Val(cookie), JWT_SECRET, ms)
            /\ Val(cookie).userId \in DOMAIN users
            /\ users[Val(cookie).userId].refresh_token # None
         THEN [status |-> 0, body |-> Message(""), user |-> cookie]
         ELSE [status |-> 401, body |-> Message("Invalid or expired token"),
               user |-> None]

\* authMiddleware of the identity service: the status it answers (0 when it
\* calls next()), and req.user, the payload of the token.
IdentityAuthMiddleware(cookie, ms) ==
    IF cookie = None \/ Val(cookie).kind = "empty"
    THEN [status |-> 401, body |-> Message("Unauthorized"), user |-> None]
    ELSE IF JwtVerify(Val(cookie), JWT_SECRET, ms)
         THEN [status |-> 0, body |-> Message(""), user |-> cookie]
         ELSE [status |-> 401, body |-> Message("Invalid or expired token"),
               user |-> None]

\* 'SELECT id, username, email, created_at FROM users ...': the columns of
\* a row that the statement returns
PublicColumns == {"id", "username", "email", "created_at"}
Project(row, cols) == [c \in cols |-> row[c]]
\* res.json(undefined): a response without a body
NoBody == <<>>

\* ProfileResult whose query has no WHERE id=$1: rows[0] is the first row of
\* the table.
ProfileResult_AnyRow(tbl, cookie, ms) ==
    LET auth == IdentityAuthMiddleware(cookie, ms) IN
    IF auth.status # 0 THEN Answer(auth.status, auth.body, tbl, 0)
    ELSE IF DOMAIN tbl = {}
         THEN Answer(200, NoBody, tbl, 1)
         ELSE [Answer(200, Project(tbl[CHOOSE id \in DOMAIN tbl :
                                          \A other \in DOMAIN tbl : id <= other],
                                   PublicColumns), tbl, 1)
                  EXCEPT !.userId = Val(auth.user).userId]

\* The request as a handler of the identity service finds it once the
\* middleware has called next(): req.user is the payload of the token.
Passed(user) == [status |-> 0, body |-> Message(""), user |-> user]

\* GET /profile from its awaited SELECT on: auth is the request the
\* middleware passed on, tbl the table when the statement executes
ProfileHandler(tbl, auth) ==
    LET rows == {id \in DOMAIN tbl : id = Val(auth.user).userId} IN
    IF rows = {}
    THEN Answer(200, NoBody, tbl, 1)
    ELSE [Answer(200, Project(tbl[CHOOSE id \in rows : TRUE], PublicColumns), tbl, 1)
             EXCEPT !.userId = Val(auth.user).userId]

\* GET /profile: the middleware verifies the cookie at time ms, when the
\* request is dispatched
ProfileResult(tbl, cookie, ms) ==
    LET auth == IdentityAuthMiddleware(cookie, ms) IN
    IF auth.status # 0 THEN Answer(auth.status, auth.body, tbl, 0)
    ELSE ProfileHandler(tbl, auth)

\* UsersResult whose query is SELECT * FROM users.
UsersResult_SelectAll(tbl, cookie, ms) ==
    LET auth == IdentityAuthMiddleware(cookie, ms) IN
    IF auth.status # 0 THEN Answer(auth.status, auth.body, tbl, 0)
    ELSE Answer(200, [id \in DOMAIN tbl |-> tbl[id]], tbl, 1)

\* GET /users from its awaited SELECT on: the body is the array of all rows
UsersHandler(tbl, auth) ==
    Answer(200, [id \in DOMAIN tbl |-> Project(tbl[id], PublicColumns)], tbl, 1)

\* GET /users
UsersResult(tbl, cookie, ms) ==
    LET auth == IdentityAuthMiddleware(cookie, ms) IN
    IF auth.status # 0 THEN Answer(auth.status, auth.body, tbl, 0)
    ELSE UsersHandler(tbl, auth)

\* A whole login request served with nothing else running.
LoginOutcomes(tbl, email, password, ms, draw) ==
    IF LoginBeginResult(tbl, email, password).status # 0
    THEN {LoginBeginResult(tbl, email, password)}
    ELSE LET rows == SelectByEmail(tbl, email) IN
         IF rows = {}
         THEN {LoginSelectResult(tbl, rows, 0, password, ms, draw)}
         ELSE {IF LoginSelectResult(tbl, rows, id, password, ms, draw).status # 0
               THEN LoginSelectResult(tbl, rows, id, password, ms, draw)
               ELSE StoreResult(tbl, LoginSelectResult(tbl, rows, id, password, ms, draw),
                                Message("Logged in")) : id \in rows}

\* A whole refresh request served with nothing else running: the response
\* when it is refused, the outcome of its UPDATE otherwise.
RefreshOutcomes(tbl, cookie, ms, draw) ==
    IF RefreshBeginResult(tbl, cookie).status # 0
    THEN {RefreshBeginResult(tbl, cookie)}
    ELSE LET rows == SelectByRefreshToken(tbl, Val(cookie)) IN
         IF rows = {}
         THEN {RefreshSelectResult(tbl, rows, 0, ms, draw)}
         ELSE {IF RefreshSelectResult(tbl, rows, id, ms, draw).status # 0
               THEN RefreshSelectResult(tbl, rows, id, ms, draw)
               ELSE StoreResult(tbl, RefreshSelectResult(tbl, rows, id, ms, draw),
                                Message("Tokens refreshed")) : id \in rows}

Slots == 1..MaxHandlers

\* The local variables a handler holds across its UPDATE.
Locals(r) == [userId |-> r.userId, accessToken |-> r.accessToken,
              newRefresh |-> r.newRefresh, newExpiry |-> r.newExpiry]

Idle == [op |-> "none", pc |-> "idle", username |-> "", email |-> "", password |-> "",
         cookie |-> None, issued |-> Locals(Answer(0, Message(""), <<>>, 0)),
         validAtBegin |-> FALSE, spentAtBegin |-> FALSE, user |-> None]

\* Handlers that have not yet drawn their refresh token.
Drawing == {j \in Slots : h[j].pc = "select"}
CanDraw == nextToken + Cardinality(Drawing) <= MaxTokens

\* The refresh cookies a client can send: none, the empty string, a value
\* the service issued, a value it never issued.
RefreshCookies ==
    {None, Some(EmptyString), Some(ForeignToken)}
        \cup {Some(t) : t \in 1..(nextToken - 1)}

Spent(tok) == tok \in DOMAIN rotations /\ rotations[tok] > 0

\* Would a refresh that reads the store now and presents tok be answered 200
\* for account id?
Accepts(tbl, id, tok, ms) ==
    /\ id \in SelectByRefreshToken(tbl, tok)
    /\ RefreshSelectResult(tbl, SelectByRefreshToken(tbl, tok), id, ms, 0).status = 0

todoVars == <<todos, nextTodoId, pending>>
clientVars == <<client, log>>
serveVars == <<req, sent>>

\* No request has been received: the route, the handler's position, the
\* statements it has sent to the store, the fields and cookies of the
\* request, and the tokens it holds between its SELECT and its UPDATE.
NoRequest ==
    [route |-> "none", pc |-> "idle", calls |-> <<>>,
     username |-> "", email |-> "", password |-> "",
     refreshToken |-> None, bodyToken |-> None, accessToken |-> None,
     id |-> 0, status |-> None, issued |-> Locals(Answer(0, Message(""), <<>>, 0)),
     user |-> None]

\* No request of the todo service is awaiting its statement on a
\* connection: the route, the req.user the middleware set, and the
\* parameters and body fields the handler passes to its statement.
NoTodoRequest ==
    [route |-> "none", user |-> None, id |-> 0, title |-> "", description |-> "",
     status |-> None]

\* A browser that holds no cookie and has made no request.
NoClient == [accessToken |-> None, refreshToken |-> None,
             username |-> "", email |-> "", password |-> ""]
clockVars == <<now, ticks>>

Init ==
    /\ now = 0
    /\ ticks = 0
    /\ users = <<>>
    /\ nextUserId = 1
    /\ nextToken = 1
    /\ minted = {}
    /\ rotations = [t \in 1..MaxTokens |-> 0]
    /\ h = [i \in Slots |-> Idle]
    /\ client = NoClient
    /\ log = <<>>
    /\ req = NoRequest
    /\ sent = <<>>
    /\ todos = <<>>
    /\ nextTodoId = 1
    /\ pending = [i \in Slots |-> NoTodoRequest]

Register(username, email, password) ==
    LET r == RegisterResult(users, nextUserId, username, email, password, now) IN
    /\ r.queries > 0 => nextUserId <= MaxUserId
    /\ users' = r.users
    \* the sequence advances whether or not the INSERT succeeds
    /\ nextUserId' = nextUserId + r.queries
    /\ UNCHANGED <<clockVars, nextToken, minted, rotations, h, todoVars, clientVars, serveVars>>

\* POST /register up to its first await (bcrypt.hash): the fields are checked
RegisterBegin(i, username, email, password) ==
    LET r == RegisterResult(users, nextUserId, username, email, password, now) IN
    /\ h[i].pc = "idle"
    /\ h' = IF r.queries = 0 THEN h
            ELSE [h EXCEPT ![i] = [Idle EXCEPT !.op = "register", !.pc = "insert",
                                               !.username = username, !.email = email,
                                               !.password = password]]
    /\ UNCHANGED <<clockVars, users, nextUserId, nextToken, minted, rotations, todoVars, clientVars, serveVars>>

\* POST /register from its INSERT on: the store takes the row or raises 23505
RegisterInsert(i) ==
    LET r == RegisterResult(users, nextUserId, h[i].username, h[i].email,
                            h[i].password, now) IN
    /\ h[i].op = "register" /\ h[i].pc = "insert"
    /\ nextUserId <= MaxUserId
    /\ users' = r.users
    /\ nextUserId' = nextUserId + r.queries
    /\ h' = [h EXCEPT ![i] = Idle]
    /\ UNCHANGED <<clockVars, nextToken, minted, rotations, todoVars, clientVars, serveVars>>

LoginBegin(i, email, password) ==
    LET r == LoginBeginResult(users, email, password) IN
    /\ h[i].pc = "idle"
    /\ r.status = 0 => CanDraw
    /\ h' = IF r.status # 0 THEN h
            ELSE [h EXCEPT ![i] = [Idle EXCEPT !.op = "login", !.pc = "select",
                                               !.email = email, !.password = password]]
    /\ UNCHANGED <<clockVars, users, nextUserId, nextToken, minted, rotations, todoVars, clientVars, serveVars>>

\* A handler's step from its SELECT: it answers r, or goes on to its UPDATE
\* holding what it issued.
AfterSelect(i, r) ==
    /\ h' = [h EXCEPT ![i] = IF r.status # 0 THEN Idle
                             ELSE [@ EXCEPT !.pc = "update", !.issued = Locals(r)]]
    /\ nextToken' = IF r.status # 0 THEN nextToken ELSE nextToken + 1
    /\ minted' = IF r.status # 0 THEN minted
                 ELSE minted \cup {[token |-> Val(r.accessToken), at |-> now]}
    /\ users' = r.users

LoginSelect(i) ==
    /\ h[i].op = "login" /\ h[i].pc = "select"
    /\ LET rows == SelectByEmail(users, h[i].email) IN
       \E id \in (IF rows = {} THEN {0} ELSE rows) :
          AfterSelect(i, LoginSelectResult(users, rows, id, h[i].password, now, nextToken))
    /\ UNCHANGED <<clockVars, nextUserId, rotations, todoVars, clientVars, serveVars>>

LoginUpdate(i) ==
    /\ h[i].op = "login" /\ h[i].pc = "update"
    /\ users' = StoreResult(users, h[i].issued, Message("Logged in")).users
    /\ h' = [h EXCEPT ![i] = Idle]
    /\ UNCHANGED <<clockVars, nextUserId, nextToken, minted, rotations, todoVars, clientVars, serveVars>>

RefreshBegin(i, cookie) ==
    LET r == RefreshBeginResult(users, cookie) IN
    /\ h[i].pc = "idle"
    /\ r.status = 0 => CanDraw
    /\ h' = IF r.status # 0 THEN h
            ELSE [h EXCEPT ![i] =
                    [Idle EXCEPT !.op = "refresh", !.pc = "select", !.cookie = cookie,
                                 !.validAtBegin =
                                     (\E id \in DOMAIN users :
                                         Accepts(users, id, Val(cookie), now)),
                                 !.spentAtBegin = Spent(Val(cookie))]]
    /\ UNCHANGED <<clockVars, users, nextUserId, nextToken, minted, rotations, todoVars, clientVars, serveVars>>

RefreshSelect(i) ==
    /\ h[i].op = "refresh" /\ h[i].pc = "select"
    /\ LET rows == SelectByRefreshToken(users, Val(h[i].cookie)) IN
       \E id \in (IF rows = {} THEN {0} ELSE rows) :
          AfterSelect(i, RefreshSelectResult(users, rows, id, now, nextToken))
    /\ UNCHANGED <<clockVars, nextUserId, rotations, todoVars, clientVars, serveVars>>

RefreshUpdate(i) ==
    /\ h[i].op = "refresh" /\ h[i].pc = "update"
    /\ users' = StoreResult(users, h[i].issued, Message("Tokens refreshed")).users
    /\ rotations' = [rotations EXCEPT ![Val(h[i].cookie)] = @ + 1]
    /\ h' = [h EXCEPT ![i] = Idle]
    /\ UNCHANGED <<clockVars, nextUserId, nextToken, minted, todoVars, clientVars, serveVars>>

Logout(bodyTok, cookie) ==
    /\ users' = LogoutResult(users, bodyTok, cookie).users
    /\ UNCHANGED <<clockVars, nextUserId, nextToken, minted, rotations, h, todoVars, clientVars, serveVars>>

\* The clock: Date.now() advances by d milliseconds.
Tick(d) ==
    /\ ticks < MaxTicks
    /\ now + d <= 2 * RefreshTtlMs
    /\ now' = now + d
    /\ ticks' = ticks + 1
    /\ UNCHANGED <<users, nextUserId, nextToken, minted, rotations, h, todoVars, clientVars, serveVars>>

\* ------------------------------------------------------------- a browser
\* One browser that keeps the cookies it is sent and sends them back, making
\* its requests one after the other: register, login, profile, logout,
\* profile. Its connection is the first; its login and its profile are
\* served await by await, with the requests of others and the clock in
\* between.
Entry(op, r) == [op |-> op, status |-> r.status, body |-> r.body,
                 setAccess |-> r.setAccess, setRefresh |-> r.setRefresh]

ClientRegister(username, email, password) ==
    LET r == RegisterResult(users, nextUserId, username, email, password, now) IN
    /\ log = <<>>
    /\ ~FalsyStr(username) /\ ~FalsyStr(email) /\ ~FalsyStr(password)
    /\ ~UniqueViolation(users, username, email)
    /\ nextUserId <= MaxUserId
    /\ users' = r.users
    /\ nextUserId' = nextUserId + r.queries
    /\ client' = [client EXCEPT !.username = username, !.email = email,
                                !.password = password]
    /\ log' = Append(log, Entry("register", r))
    /\ UNCHANGED <<clockVars, nextToken, minted, rotations, h, todoVars, serveVars>>

\* The browser posts its credentials to /login: the handler checks the
\* fields and awaits its SELECT.
ClientLogin ==
    LET r == LoginBeginResult(users, client.email, client.password) IN
    /\ Len(log) = 1
    /\ h[1].pc = "idle"
    /\ r.status = 0 => CanDraw
    /\ h' = IF r.status # 0 THEN h
            ELSE [h EXCEPT ![1] = [Idle EXCEPT !.op = "login", !.pc = "select",
                                               !.email = client.email,
                                               !.password = client.password]]
    /\ log' = IF r.status # 0 THEN Append(log, Entry("login", r)) ELSE log
    /\ UNCHANGED <<clockVars, users, nextUserId, nextToken, minted, rotations, client,
                   todoVars, serveVars>>

\* The SELECT of the browser's login returns: the handler answers 400, or
\* signs the access token, draws the refresh token, computes its expiry and
\* awaits its UPDATE.
ClientLoginSelect ==
    /\ Len(log) = 1
    /\ h[1].op = "login" /\ h[1].pc = "select"
    /\ LET rows == SelectByEmail(users, h[1].email) IN
       \E id \in (IF rows = {} THEN {0} ELSE rows) :
          LET r == LoginSelectResult(users, rows, id, h[1].password, now, nextToken) IN
          /\ AfterSelect(1, r)
          /\ log' = IF r.status # 0 THEN Append(log, Entry("login", r)) ELSE log
    /\ UNCHANGED <<clockVars, nextUserId, rotations, client, todoVars, serveVars>>

\* The UPDATE of the browser's login executes: the cookies are set, the 200
\* is sent and the browser keeps the cookies.
ClientLoginUpdate ==
    LET r == StoreResult(users, h[1].issued, Message("Logged in")) IN
    /\ Len(log) = 1
    /\ h[1].op = "login" /\ h[1].pc = "update"
    /\ users' = r.users
    /\ h' = [h EXCEPT ![1] = Idle]
    /\ client' = [client EXCEPT !.accessToken = r.setAccess,
                                !.refreshToken = r.setRefresh]
    /\ log' = Append(log, Entry("login", r))
    /\ UNCHANGED <<clockVars, nextUserId, nextToken, minted, rotations, todoVars,
                   serveVars>>

\* The browser requests /profile with its accessToken cookie: the middleware
\* answers 401, or verifies the token now, sets req.user and calls next(),
\* and the handler awaits its SELECT.
ClientProfile ==
    LET auth == IdentityAuthMiddleware(client.accessToken, now) IN
    /\ Len(log) \in {2, 4}
    /\ h[1].pc = "idle"
    /\ h' = IF auth.status # 0 THEN h
            ELSE [h EXCEPT ![1] = [Idle EXCEPT !.op = "profile", !.pc = "select",
                                               !.user = auth.user]]
    /\ log' = IF auth.status # 0
              THEN Append(log, Entry("profile", Answer(auth.status, auth.body, users, 0)))
              ELSE log
    /\ UNCHANGED <<clockVars, users, nextUserId, nextToken, minted, rotations, client,
                   todoVars, serveVars>>

\* The SELECT of the browser's profile executes, at whatever time it is by
\* then, with the req.user the middleware set, and the handler answers.
ClientProfileSelect ==
    /\ Len(log) \in {2, 4}
    /\ h[1].op = "profile" /\ h[1].pc = "select"
    /\ h' = [h EXCEPT ![1] = Idle]
    /\ log' = Append(log, Entry("profile", ProfileHandler(users, Passed(h[1].user))))
    /\ UNCHANGED <<clockVars, users, nextUserId, nextToken, minted, rotations, client,
                   todoVars, serveVars>>

\* The browser sends its refreshToken cookie and no token in the body.
ClientLogout ==
    LET r == LogoutResult(users, None, client.refreshToken) IN
    /\ Len(log) = 3
    /\ h[1].pc = "idle"
    /\ users' = r.users
    /\ client' = [client EXCEPT
                    !.accessToken = IF r.setAccess = Some("cleared") THEN None ELSE @,
                    !.refreshToken = IF r.setRefresh = Some("cleared") THEN None ELSE @]
    /\ log' = Append(log, Entry("logout", r))
    /\ UNCHANGED <<clockVars, nextUserId, nextToken, minted, rotations, h, todoVars, serveVars>>

vars == <<now, ticks, users, nextUserId, nextToken, minted, rotations, h,
          client, log, todos, nextTodoId, pending, req, sent>>

\* ------------------------------------------------------------ todo service
\* An accessToken cookie whose value is the empty string, and one whose
\* value is not a JWT at all.
EmptyJwt == [kind |-> "empty", userId |-> 0, username |-> "", iat |-> 0, exp |-> 0,
             sig |-> ""]
GarbageJwt == [kind |-> "garbage", userId |-> 0, username |-> "", iat |-> 0, exp |-> 0,
               sig |-> ""]

\* !token for the optional accessToken cookie
FalsyToken(o) == o = None \/ Val(o).kind = "empty"

\* Tokens nobody holding JWT_SECRET made: signed with another secret, or
\* unsigned (alg none), claiming an existing account.
Forged ==
    {JwtSign(id, users[id].username, sig, now) :
        id \in DOMAIN users, sig \in {"attacker-secret", "none"}}

MintedTokens == {m.token : m \in minted}

\* The accessToken cookies a client can send.
AccessCookies ==
    {None, Some(EmptyJwt), Some(GarbageJwt)}
        \cup {Some(t) : t \in MintedTokens} \cup {Some(t) : t \in Forged}

\* authMiddleware answering 401 for an invalid token too, as the middleware
\* of the identity service does.
authMiddleware_Always401(cookie, ms) ==
    IF FalsyToken(cookie)
    THEN [status |-> 401, body |-> "No token provided", user |-> None, queries |-> 0]
    ELSE IF JwtVerify(Val(cookie), JWT_SECRET, ms)
         THEN [status |-> 0, body |-> "",
               user |-> Some([id |-> Val(cookie).userId,
                              username |-> Val(cookie).username]),
               queries |-> 0]
         ELSE [status |-> 401, body |-> "Invalid or expired token", user |-> None,
               queries |-> 0]

\* authMiddleware looking the account up in a store before it decides.
authMiddleware_LooksUpUser(cookie, ms) ==
    IF FalsyToken(cookie)
    THEN [status |-> 401, body |-> "No token provided", user |-> None, queries |-> 0]
    ELSE IF JwtVerify(Val(cookie), JWT_SECRET, ms)
         THEN [status |-> 0, body |-> "",
               user |-> Some([id |-> Val(cookie).userId,
                              username |-> Val(cookie).username]),
               queries |-> 1]
         ELSE [status |-> 403, body |-> "Invalid or expired token", user |-> None,
               queries |-> 1]

\* authMiddleware of the todo service: the status it answers (0 when it calls
\* next()), the req.user it sets, the store queries it issues.
authMiddleware(cookie, ms) ==
    IF FalsyToken(cookie)
    THEN [status |-> 401, body |-> "No token provided", user |-> None, queries |-> 0]
    ELSE IF JwtVerify(Val(cookie), JWT_SECRET, ms)
         THEN [status |-> 0, body |-> "",
               user |-> Some([id |-> Val(cookie).userId,
                              username |-> Val(cookie).username]),
               queries |-> 0]
         ELSE [status |-> 403, body |-> "Invalid or expired token", user |-> None,
               queries |-> 0]

\* 'SELECT * FROM todos WHERE user_id = $1 ORDER BY id ASC'
SelectTodosOfUser(tbl, userId) == {tbl[i] : i \in {j \in DOMAIN tbl : tbl[j].user_id = userId}}

\* MatchTodo without the owner: 'WHERE id = $1'.
MatchTodo_IgnoresOwner(tbl, id, userId) == {i \in DOMAIN tbl : i = id}

\* 'WHERE id = $1 AND user_id = $2': the ids of the matching rows
MatchTodo(tbl, id, userId) == {i \in DOMAIN tbl : i = id /\ tbl[i].user_id = userId}

\* 'INSERT INTO todos (title, description, status, user_id) VALUES ($1, $2, $3, $4)'
InsertTodo(tbl, id, title, description, status, userId) ==
    [i \in DOMAIN tbl \cup {id} |->
        IF i = id
        THEN [id |-> id, title |-> title, description |-> description,
              status |-> status, user_id |-> userId]
        ELSE tbl[i]]

\* 'UPDATE todos SET title=$1, description=$2, status=$3 WHERE id=$4 AND user_id=$5'
UpdateTodo(tbl, title, description, status, id, userId) ==
    [i \in DOMAIN tbl |->
        IF i \in MatchTodo(tbl, id, userId)
        THEN [tbl[i] EXCEPT !.title = title, !.description = description,
                            !.status = status]
        ELSE tbl[i]]

\* SoftDeleteTodo that removes the row as the permanent delete does.
SoftDeleteTodo_Removes(tbl, id, userId) ==
    [i \in DOMAIN tbl \ {j \in DOMAIN tbl : j = id /\ tbl[j].user_id = userId} |-> tbl[i]]

\* "UPDATE todos SET status='Deleted' WHERE id=$1 AND user_id=$2"
SoftDeleteTodo(tbl, id, userId) ==
    [i \in DOMAIN tbl |->
        IF i \in MatchTodo(tbl, id, userId)
        THEN [tbl[i] EXCEPT !.status = Some("Deleted")]
        ELSE tbl[i]]

\* 'DELETE FROM todos WHERE id=$1 AND user_id=$2'
DeleteTodo(tbl, id, userId) ==
    [i \in DOMAIN tbl \ MatchTodo(tbl, id, userId) |-> tbl[i]]

Titles == {"t1", "t2"}
\* the titles of the requests that are sent
SentTitles == {"t1"}
Descriptions == {"d1"}
\* the status field of a request body: absent, empty, or given
Statuses == {None, Some(""), Some("Done")}
\* the ids a client can address
TodoIds == 1..MaxTodoId
\* a user_id field a client may put in a request body
BodyUserIds == {None} \cup {Some(id) : id \in DOMAIN users}

\* A stopped request answered 401 whatever the middleware decided.
Stopped_Always401(auth, tbl) ==
    [status |-> 401, body |-> auth.body, rows |-> {}, user |-> None,
     queries |-> auth.queries, todos |-> tbl]

\* What a request to the todo service yields: the response (status, body, the
\* rows in the body), the req.user the handler ran with (None when the
\* middleware stopped the request), the number of store queries issued, and
\* the todos table after the request.
Stopped(auth, tbl) ==
    [status |-> auth.status, body |-> auth.body, rows |-> {}, user |-> None,
     queries |-> auth.queries, todos |-> tbl]

Handled(auth, code, msg, rows, tbl) ==
    [status |-> code, body |-> msg, rows |-> rows, user |-> auth.user,
     queries |-> auth.queries + 1, todos |-> tbl]

NotFound == "Todo not found or access denied"

\* The rows a statement with RETURNING * gives back, or the 404.
Returning(auth, matched, tbl, okCode, okMsg) ==
    IF matched = {}
    THEN Handled(auth, 404, NotFound, {}, tbl)
    ELSE Handled(auth, okCode, okMsg, {tbl[i] : i \in matched \cap DOMAIN tbl}, tbl)

\* GET /health: registered before app.use(authMiddleware)
HealthResult(tbl, cookie, ms) ==
    [status |-> 200, body |-> "ok", rows |-> {}, user |-> None, queries |-> 0,
     todos |-> tbl]

\* The request as a handler finds it once the middleware has called next():
\* req.user is set and no query has been issued.
Authorized(user) == [status |-> 0, body |-> "", user |-> user, queries |-> 0]

\* The handlers behind app.use(authMiddleware), from their awaited
\* pool.query on: auth is the request the middleware passed on, tbl the
\* table when the statement executes.
\* GET /
ListHandler(tbl, auth) ==
    Handled(auth, 200, "rows", SelectTodosOfUser(tbl, Val(auth.user).id), tbl)

\* GET /:id
GetHandler(tbl, auth, id) ==
    Returning(auth, MatchTodo(tbl, id, Val(auth.user).id), tbl, 200, "row")

\* POST /: seq is the next value of the todos.id sequence; status || "Todo"
\* stores 'Todo' for an absent and for an empty status
CreateHandler(tbl, auth, seq, title, description, status) ==
    Returning(auth, {seq},
              InsertTodo(tbl, seq, title, description,
                         IF status = None \/ FalsyStr(Val(status)) THEN Some("Todo")
                         ELSE status,
                         Val(auth.user).id),
              201, "row")

\* PUT /:id: the status is stored as the body gives it
UpdateHandler(tbl, auth, id, title, description, status) ==
    Returning(auth, MatchTodo(tbl, id, Val(auth.user).id),
              UpdateTodo(tbl, title, description, status, id, Val(auth.user).id),
              200, "row")

\* DELETE /:id
SoftDeleteHandler(tbl, auth, id) ==
    Returning(auth, MatchTodo(tbl, id, Val(auth.user).id),
              SoftDeleteTodo(tbl, id, Val(auth.user).id), 200, "row")

\* DELETE /:id/permanent
PermanentDeleteHandler(tbl, auth, id) ==
    Returning(auth, MatchTodo(tbl, id, Val(auth.user).id),
              DeleteTodo(tbl, id, Val(auth.user).id),
              200, "Todo permanently deleted")

\* A whole request: the middleware verifies the cookie at time ms, when the
\* request is dispatched, and the handler's statement executes on tbl.
\* GET /
ListResult(tbl, cookie, ms) ==
    LET auth == authMiddleware(cookie, ms) IN
    IF auth.status # 0 THEN Stopped(auth, tbl) ELSE ListHandler(tbl, auth)

\* GET /:id
GetResult(tbl, cookie, ms, id) ==
    LET auth == authMiddleware(cookie, ms) IN
    IF auth.status # 0 THEN Stopped(auth, tbl) ELSE GetHandler(tbl, auth, id)

\* POST /: req.body.user_id is not read
CreateResult(tbl, cookie, ms, seq, title, description, status, bodyUserId) ==
    LET auth == authMiddleware(cookie, ms) IN
    IF auth.status # 0 THEN Stopped(auth, tbl)
    ELSE CreateHandler(tbl, auth, seq, title, description, status)

\* PUT /:id
UpdateResult(tbl, cookie, ms, id, title, description, status) ==
    LET auth == authMiddleware(cookie, ms) IN
    IF auth.status # 0 THEN Stopped(auth, tbl)
    ELSE UpdateHandler(tbl, auth, id, title, description, status)

\* DELETE /:id
SoftDeleteResult(tbl, cookie, ms, id) ==
    LET auth == authMiddleware(cookie, ms) IN
    IF auth.status # 0 THEN Stopped(auth, tbl) ELSE SoftDeleteHandler(tbl, auth, id)

\* DELETE /:id/permanent
PermanentDeleteResult(tbl, cookie, ms, id) ==
    LET auth == authMiddleware(cookie, ms) IN
    IF auth.status # 0 THEN Stopped(auth, tbl)
    ELSE PermanentDeleteHandler(tbl, auth, id)

\* The handler of the request q that awaits its statement, when the
\* statement executes on tbl.
TodoHandler(q, tbl, seq) ==
    CASE q.route = "list" -> ListHandler(tbl, Authorized(q.user))
      [] q.route = "get" -> GetHandler(tbl, Authorized(q.user), q.id)
      [] q.route = "create" ->
            CreateHandler(tbl, Authorized(q.user), seq, q.title, q.description, q.status)
      [] q.route = "update" ->
            UpdateHandler(tbl, Authorized(q.user), q.id, q.title, q.description, q.status)
      [] q.route = "softDelete" -> SoftDeleteHandler(tbl, Authorized(q.user), q.id)
      [] q.route = "permanentDelete" ->
            PermanentDeleteHandler(tbl, Authorized(q.user), q.id)

\* The requests that can be awaiting their statement with req.user = user.
TodoRequestsOf(user) ==
    {[NoTodoRequest EXCEPT !.route = "list", !.user = user]}
        \cup {[NoTodoRequest EXCEPT !.route = r, !.user = user, !.id = id] :
                 r \in {"get", "softDelete", "permanentDelete"}, id \in TodoIds}
        \cup {[NoTodoRequest EXCEPT !.route = "create", !.user = user, !.title = t,
                                    !.description = d, !.status = st] :
                 t \in SentTitles, d \in Descriptions, st \in Statuses}
        \cup {[NoTodoRequest EXCEPT !.route = "update", !.user = user, !.id = id,
                                    !.title = t, !.description = d, !.status = st] :
                 id \in TodoIds, t \in SentTitles, d \in Descriptions, st \in Statuses}

identityVars == <<users, nextUserId, nextToken, minted, rotations, h>>

\* A request to the todo service that reaches no handler.
TodoStep(r) ==
    /\ todos' = r.todos
    /\ UNCHANGED <<clockVars, identityVars, clientVars, nextTodoId, pending, serveVars>>

Health(cookie) == TodoStep(HealthResult(todos, cookie, now))

\* Handlers that have not yet sent their INSERT.
Creating == {j \in Slots : pending[j].route = "create"}
CanCreate == nextTodoId + Cardinality(Creating) <= MaxTodoId

\* The request q arrives on connection i with the accessToken cookie: the
\* middleware answers it, or verifies the token now, sets req.user and calls
\* next(), and the handler runs to its await.
TodoBegin(i, cookie, q) ==
    LET auth == authMiddleware(cookie, now) IN
    /\ pending[i].route = "none"
    /\ (auth.status = 0 /\ q.route = "create") => CanCreate
    /\ pending' = IF auth.status # 0 THEN pending
                  ELSE [pending EXCEPT ![i] = [q EXCEPT !.user = auth.user]]
    /\ UNCHANGED <<clockVars, identityVars, clientVars, todos, nextTodoId, serveVars>>

TodoList(i, cookie) == TodoBegin(i, cookie, [NoTodoRequest EXCEPT !.route = "list"])

TodoGet(i, cookie, id) ==
    TodoBegin(i, cookie, [NoTodoRequest EXCEPT !.route = "get", !.id = id])

TodoCreate(i, cookie, title, description, status, bodyUserId) ==
    TodoBegin(i, cookie, [NoTodoRequest EXCEPT !.route = "create", !.title = title,
                                               !.description = description,
                                               !.status = status])

TodoUpdate(i, cookie, id, title, description, status) ==
    TodoBegin(i, cookie, [NoTodoRequest EXCEPT !.route = "update", !.id = id,
                                               !.title = title,
                                               !.description = description,
                                               !.status = status])

TodoSoftDelete(i, cookie, id) ==
    TodoBegin(i, cookie, [NoTodoRequest EXCEPT !.route = "softDelete", !.id = id])

TodoPermanentDelete(i, cookie, id) ==
    TodoBegin(i, cookie, [NoTodoRequest EXCEPT !.route = "permanentDelete", !.id = id])

\* The statement awaited on connection i executes, at whatever time it is
\* by then, with the req.user the middleware set, and the handler answers.
TodoQuery(i) ==
    LET q == pending[i]
        r == TodoHandler(q, todos, nextTodoId) IN
    /\ q.route # "none"
    /\ q.route = "create" => nextTodoId <= MaxTodoId
    /\ todos' = r.todos
    /\ nextTodoId' = IF q.route = "create" THEN nextTodoId + 1 ELSE nextTodoId
    /\ pending' = [pending EXCEPT ![i] = NoTodoRequest]
    /\ UNCHANGED <<clockVars, identityVars, clientVars, serveVars>>

\* The todo service on connection i.
TodoService(i) ==
    \/ \E c \in AccessCookies : TodoList(i, c)
    \/ \E c \in AccessCookies, id \in TodoIds : TodoGet(i, c, id)
    \/ \E c \in AccessCookies, t \in SentTitles, d \in Descriptions, s \in Statuses,
          u \in BodyUserIds : TodoCreate(i, c, t, d, s, u)
    \/ \E c \in AccessCookies, id \in TodoIds, t \in SentTitles, d \in Descriptions,
          s \in Statuses : TodoUpdate(i, c, id, t, d, s)
    \/ \E c \in AccessCookies, id \in TodoIds : TodoSoftDelete(i, c, id)
    \/ \E c \in AccessCookies, id \in TodoIds : TodoPermanentDelete(i, c, id)
    \/ TodoQuery(i)

\* ------------------------------------------------- a request, await by await
\* One handler at a time, followed from the request to the response: each
\* pool.query it awaits returns or fails, and every res.json / res.send it
\* executes is appended to sent.
IdentityRoutes == {"register", "login", "refresh", "logout", "profile", "users"}
TodoRoutes == {"list", "get", "create", "update", "softDelete", "permanentDelete"}
\* the routes that await a SELECT and then an UPDATE
TwoCalls == {"login", "refresh"}

\* res.status(500).send('Server error')
Text(msg) == [text |-> msg]

\* ServerError whose catch block also clears the two cookies.
ServerError_ClearsCookies(tbl) ==
    [Answer(500, Text("Server error"), tbl, 1)
        EXCEPT !.setAccess = Some("cleared"), !.setRefresh = Some("cleared")]

\* The catch block of the identity service's handlers, for an error that is
\* not a unique violation.
ServerError(tbl) == Answer(500, Text("Server error"), tbl, 1)

\* The catch block of the todo service's handlers.
DatabaseError(auth, tbl) == Handled(auth, 500, "Database error", {}, tbl)

\* What is written to the client: the status and the cookies set or cleared.
Reply(status, setAccess, setRefresh) ==
    [status |-> status, setAccess |-> setAccess, setRefresh |-> setRefresh]
IdentityReply(r) == Reply(r.status, r.setAccess, r.setRefresh)
TodoReply(r) == Reply(r.status, None, None)
\* the handler has not answered and goes on to its next await
InProgress == Reply(0, None, None)

\* The statement a route awaits first.
Statement(route) ==
    CASE route \in {"register", "create"} -> "insert"
      [] route \in {"login", "refresh", "profile", "users", "list", "get"} -> "select"
      [] route \in {"logout", "update", "softDelete"} -> "update"
      [] route = "permanentDelete" -> "delete"

\* The outcome of a route with one store call, when the call returns.
IdentityResult(q) ==
    CASE q.route = "register" ->
            RegisterResult(users, nextUserId, q.username, q.email, q.password, now)
      [] q.route = "logout" -> LogoutResult(users, q.bodyToken, q.refreshToken)
      [] q.route = "profile" -> ProfileHandler(users, Passed(q.user))
      [] q.route = "users" -> UsersHandler(users, Passed(q.user))

\* The outcome of a todo route when its store call returns; the body of the
\* request has the title t1 and the description d1.
TodoResult(q) ==
    TodoHandler([route |-> q.route, user |-> q.user, id |-> q.id, title |-> "t1",
                 description |-> "d1", status |-> q.status],
                todos, nextTodoId)

\* The middleware in front of the route of request q, run as the request
\* arrives.
Middleware(q) ==
    CASE q.route \in TodoRoutes -> authMiddleware(q.accessToken, now)
      [] q.route \in {"profile", "users"} -> IdentityAuthMiddleware(q.accessToken, now)
      [] OTHER -> Passed(None)

\* The handler of request q up to its first await: the response of the
\* middleware or of the validation, or InProgress.
BeforeFirstAwait(q) ==
    CASE q.route = "login" ->
            IdentityReply(LoginBeginResult(users, q.email, q.password))
      [] q.route = "refresh" ->
            IdentityReply(RefreshBeginResult(users, q.refreshToken))
      [] q.route \in {"register", "logout"} ->
            IF IdentityResult(q).queries = 0 THEN IdentityReply(IdentityResult(q))
            ELSE InProgress
      [] q.route \in {"profile", "users"} ->
            IF Middleware(q).status # 0
            THEN IdentityReply(Answer(Middleware(q).status, Middleware(q).body, users, 0))
            ELSE InProgress
      [] q.route \in TodoRoutes ->
            IF Middleware(q).status # 0 THEN TodoReply(Stopped(Middleware(q), todos))
            ELSE InProgress

\* The accessToken cookies of the requests below: absent, not a token, a
\* token of the identity service.
SomeAccessCookies == {None, Some(GarbageJwt)} \cup {Some(t) : t \in MintedTokens}

\* The requests a client can send: every route, with fields and cookies
\* that take each of its branches; the todo addressed is the first, which is
\* not yet created, stored, or removed as the requests go by.
Requests ==
    {[NoRequest EXCEPT !.route = "register", !.username = u, !.email = "a@x.com",
                       !.password = "pw1"] : u \in {"", "alice"}}
        \cup {[NoRequest EXCEPT !.route = "login", !.email = e, !.password = p] :
                 e \in Emails, p \in {"pw1", "pw2"}}
        \cup {[NoRequest EXCEPT !.route = r, !.refreshToken = c] :
                 r \in {"refresh", "logout"}, c \in RefreshCookies}
        \cup {[NoRequest EXCEPT !.route = r, !.accessToken = c] :
                 r \in {"profile", "users", "list", "create"}, c \in SomeAccessCookies}
        \cup {[NoRequest EXCEPT !.route = r, !.accessToken = c, !.id = id,
                                !.status = Some("Done")] :
                 r \in TodoRoutes \ {"list", "create"}, c \in SomeAccessCookies,
                 id \in {1}}

\* The request is over and its response is in sent.
Done == [NoRequest EXCEPT !.pc = "done"]

\* A request arrives while no other is being served; the handler runs to
\* its first await or to its response.
Receive(q) ==
    LET early == BeforeFirstAwait(q) IN
    /\ req.pc \in {"idle", "done"}
    /\ early.status = 0 =>
          /\ q.route \in TwoCalls => nextToken <= MaxTokens
          /\ q.route = "register" => nextUserId <= MaxUserId
          /\ q.route = "create" => nextTodoId <= MaxTodoId
    /\ req' = IF early.status # 0 THEN Done
              ELSE [q EXCEPT !.pc = "first", !.calls = <<Statement(q.route)>>,
                             !.user = Middleware(q).user]
    /\ sent' = IF early.status # 0 THEN <<early>> ELSE <<>>
    /\ UNCHANGED <<clockVars, identityVars, todoVars, clientVars>>

\* The store call of register, logout, profile or users returns.
QueryReturns ==
    /\ req.pc = "first" /\ req.route \in IdentityRoutes \ TwoCalls
    /\ LET r == IdentityResult(req) IN
       /\ users' = r.users
       /\ nextUserId' = IF req.route = "register" THEN nextUserId + r.queries
                        ELSE nextUserId
       /\ sent' = Append(sent, IdentityReply(r))
    /\ req' = Done
    /\ UNCHANGED <<clockVars, nextToken, minted, rotations, h, todoVars, clientVars>>

\* The handler's step from its SELECT: it answers r, or sends its UPDATE
\* holding what it issued.
AfterSelectReturns(r) ==
    /\ req' = IF r.status # 0 THEN Done
              ELSE [req EXCEPT !.pc = "second", !.issued = Locals(r),
                               !.calls = Append(@, "update")]
    /\ sent' = IF r.status # 0 THEN Append(sent, IdentityReply(r)) ELSE sent
    /\ nextToken' = IF r.status # 0 THEN nextToken ELSE nextToken + 1
    /\ minted' = IF r.status # 0 THEN minted
                 ELSE minted \cup {[token |-> Val(r.accessToken), at |-> now]}
    /\ users' = r.users

\* The SELECT of login or refresh returns.
SelectReturns ==
    /\ req.pc = "first" /\ req.route \in TwoCalls
    /\ LET rows == IF req.route = "login" THEN SelectByEmail(users, req.email)
                   ELSE SelectByRefreshToken(users, Val(req.refreshToken)) IN
       \E id \in (IF rows = {} THEN {0} ELSE rows) :
          AfterSelectReturns(
              IF req.route = "login"
              THEN LoginSelectResult(users, rows, id, req.password, now, nextToken)
              ELSE RefreshSelectResult(users, rows, id, now, nextToken))
    /\ UNCHANGED <<clockVars, nextUserId, rotations, h, todoVars, clientVars>>

\* The UPDATE of login or refresh returns: the cookies are set and the 200
\* is sent.
UpdateReturns ==
    /\ req.pc = "second"
    /\ LET r == StoreResult(users, req.issued,
                            IF req.route = "login" THEN Message("Logged in")
                            ELSE Message("Tokens refreshed")) IN
       /\ users' = r.users
       /\ sent' = Append(sent, IdentityReply(r))
    /\ rotations' = IF req.route = "refresh"
                    THEN [rotations EXCEPT ![Val(req.refreshToken)] = @ + 1]
                    ELSE rotations
    /\ req' = Done
    /\ UNCHANGED <<clockVars, nextUserId, nextToken, minted, h, todoVars, clientVars>>

\* The store call of a todo route returns.
TodoReturns ==
    /\ req.pc = "first" /\ req.route \in TodoRoutes
    /\ LET r == TodoResult(req) IN
       /\ todos' = r.todos
       /\ sent' = Append(sent, TodoReply(r))
    /\ nextTodoId' = IF req.route = "create" THEN nextTodoId + 1 ELSE nextTodoId
    /\ req' = Done
    /\ UNCHANGED <<clockVars, identityVars, clientVars, pending>>

\* StoreFails whose catch block logs the error and sends nothing.
StoreFails_Silent ==
    /\ req.pc \in {"first", "second"}
    /\ sent' = sent
    /\ req' = Done
    /\ UNCHANGED <<clockVars, identityVars, todoVars, clientVars>>

\* The pending store call fails with an error other than a unique
\* violation and has changed nothing: the catch block answers.
StoreFails ==
    /\ req.pc \in {"first", "second"}
    /\ sent' = Append(sent,
                 IF req.route \in TodoRoutes
                 THEN TodoReply(DatabaseError(Authorized(req.user), todos))
                 ELSE IdentityReply(ServerError(users)))
    /\ req' = Done
    /\ UNCHANGED <<clockVars, identityVars, todoVars, clientVars>>

\* ---------------------------------------------------------- specifications
\* Each specification below runs a part of the system from a state the whole
\* system reaches, so every behaviour of it is a behaviour of the whole.

\* Two accounts registered, nobody logged in.
Registered ==
    InsertUser(InsertUser(<<>>, 1, "alice", "a@x.com", BcryptHash("pw1"), 0),
               2, "bob", "b@x.com", BcryptHash("pw2"), 0)

InitSession ==
    /\ now = 0
    /\ ticks = 0
    /\ users = Registered
    /\ nextUserId = 3
    /\ nextToken = 1
    /\ minted = {}
    /\ rotations = [t \in 1..MaxTokens |-> 0]
    /\ h = [i \in Slots |-> Idle]
    /\ client = NoClient
    /\ log = <<>>
    /\ req = NoRequest
    /\ sent = <<>>
    /\ todos = <<>>
    /\ nextTodoId = 1
    /\ pending = [i \in Slots |-> NoTodoRequest]

\* The identity service under concurrent requests, the clock standing still.
NextSession ==
    \/ \E i \in Slots, e \in Emails, p \in Passwords : LoginBegin(i, e, p)
    \/ \E i \in Slots : LoginSelect(i)
    \/ \E i \in Slots : LoginUpdate(i)
    \/ \E i \in Slots, c \in RefreshCookies : RefreshBegin(i, c)
    \/ \E i \in Slots : RefreshSelect(i)
    \/ \E i \in Slots : RefreshUpdate(i)
    \/ \E b \in RefreshCookies, c \in RefreshCookies : Logout(b, c)

SpecSession == InitSession /\ [][NextSession]_vars

\* The identity service, one request at a time, while the clock runs.
NextExpiry ==
    \/ \E e \in Emails, p \in Passwords : LoginBegin(1, e, p)
    \/ LoginSelect(1)
    \/ LoginUpdate(1)
    \/ \E c \in RefreshCookies : RefreshBegin(1, c)
    \/ RefreshSelect(1)
    \/ RefreshUpdate(1)
    \/ \E b \in RefreshCookies, c \in RefreshCookies : Logout(b, c)
    \/ \E d \in {1, RefreshTtlMs} : Tick(d)

SpecExpiry == InitSession /\ [][NextExpiry]_vars

\* The requests alice sent with the access token of time 0 one millisecond
\* before it ran out: the middleware has verified the token and they await
\* their statement.
RunOutRequests ==
    TodoRequestsOf(authMiddleware(Some(JwtSign(1, "alice", JWT_SECRET, 0)),
                                  AccessCookieMaxAge - 1).user)

\* alice logged in at time 0; 900 seconds later, when the access token of
\* that login has run out, alice and bob logged in; a request alice sent
\* just before may still await its statement.
InitTodo ==
    /\ now = AccessCookieMaxAge
    /\ ticks = 1
    /\ users = UpdateRefreshToken(
                 UpdateRefreshToken(Registered, 2, AccessCookieMaxAge + RefreshTtlMs, 1),
                 3, AccessCookieMaxAge + RefreshTtlMs, 2)
    /\ nextUserId = 3
    /\ nextToken = 4
    /\ minted = {[token |-> JwtSign(1, "alice", JWT_SECRET, 0), at |-> 0],
                 [token |-> JwtSign(1, "alice", JWT_SECRET, AccessCookieMaxAge),
                  at |-> AccessCookieMaxAge],
                 [token |-> JwtSign(2, "bob", JWT_SECRET, AccessCookieMaxAge),
                  at |-> AccessCookieMaxAge]}
    /\ rotations = [t \in 1..MaxTokens |-> 0]
    /\ h = [i \in Slots |-> Idle]
    /\ client = NoClient
    /\ log = <<>>
    /\ req = NoRequest
    /\ sent = <<>>
    /\ todos = <<>>
    /\ nextTodoId = 1
    /\ pending \in {[i \in Slots |-> IF i = 1 THEN q ELSE NoTodoRequest] :
                     q \in {NoTodoRequest} \cup RunOutRequests}

\* The todo service serving one connection, the clock standing still: a
\* request is verified by the middleware in one step and its statement
\* executes in a later one.
NextTodo ==
    \/ \E c \in AccessCookies : Health(c)
    \/ TodoService(1)

SpecTodo == InitTodo /\ [][NextTodo]_vars

\* Logins and refreshes, one at a time, and the requests to the todo service
\* that present what they minted, while the clock runs.
NextVerify ==
    \/ \E e \in Emails, p \in Passwords : LoginBegin(1, e, p)
    \/ LoginSelect(1)
    \/ LoginUpdate(1)
    \/ \E c \in RefreshCookies : RefreshBegin(1, c)
    \/ RefreshSelect(1)
    \/ RefreshUpdate(1)
    \/ \E t \in MintedTokens : TodoList(1, Some(t))
    \/ TodoQuery(1)
    \/ \E d \in {1000, 899000} : Tick(d)

\* The two accounts registered, the clock on or off a second boundary.
InitVerify ==
    /\ now \in {0, 999}
    /\ ticks = 0
    /\ users = Registered
    /\ nextUserId = 3
    /\ nextToken = 1
    /\ minted = {}
    /\ rotations = [t \in 1..MaxTokens |-> 0]
    /\ h = [i \in Slots |-> Idle]
    /\ client = NoClient
    /\ log = <<>>
    /\ req = NoRequest
    /\ sent = <<>>
    /\ todos = <<>>
    /\ nextTodoId = 1
    /\ pending = [i \in Slots |-> NoTodoRequest]

SpecVerify == InitVerify /\ [][NextVerify]_vars

\* The browser and, around its requests, other people's registrations and
\* logouts and the clock, second by second.
NextClient ==
    \/ \E u \in Usernames, e \in Emails, p \in Passwords : ClientRegister(u, e, p)
    \/ ClientLogin
    \/ ClientLoginSelect
    \/ ClientLoginUpdate
    \/ ClientProfile
    \/ ClientProfileSelect
    \/ ClientLogout
    \/ \E u \in Usernames, e \in Emails, p \in Passwords : Register(u, e, p)
    \/ \E b \in RefreshCookies, c \in RefreshCookies : Logout(b, c)
    \/ Tick(1000)

SpecClient == Init /\ [][NextClient]_vars

\* Registrations in flight together, from the empty store.
NextAccounts ==
    \/ \E i \in Slots, u \in Usernames, e \in Emails, p \in Passwords :
          RegisterBegin(i, u, e, p)
    \/ \E i \in Slots : RegisterInsert(i)

SpecAccounts == Init /\ [][NextAccounts]_vars

\* Registrations and logins, one request at a time, from the empty store.
NextSignup ==
    \/ \E u \in Usernames, e \in Emails, p \in Passwords : Register(u, e, p)
    \/ \E e \in Emails, p \in Passwords : LoginBegin(1, e, p)
    \/ LoginSelect(1)
    \/ LoginUpdate(1)

SpecSignup == Init /\ [][NextSignup]_vars

\* Every route of the identity service that answers with a body, one
\* request at a time, from the empty store.
NextBodies ==
    \/ \E u \in Usernames, e \in Emails, p \in Passwords : Register(u, e, p)
    \/ \E e \in Emails, p \in Passwords : LoginBegin(1, e, p)
    \/ LoginSelect(1)
    \/ LoginUpdate(1)
    \/ \E c \in RefreshCookies : RefreshBegin(1, c)
    \/ RefreshSelect(1)
    \/ RefreshUpdate(1)
    \/ \E b \in RefreshCookies, c \in RefreshCookies : Logout(b, c)

SpecBodies == Init /\ [][NextBodies]_vars

\* The pending store call returns or fails.
StoreCompletes ==
    \/ QueryReturns
    \/ SelectReturns
    \/ UpdateReturns
    \/ TodoReturns
    \/ StoreFails

\* Both services serving one request after the other from the empty store,
\* with a store whose calls may fail and always come back.
NextServe ==
    \/ \E q \in Requests : Receive(q)
    \/ StoreCompletes

SpecServe == Init /\ [][NextServe]_vars /\ WF_vars(StoreCompletes)

\* The whole system from its start.
Next ==
    \/ \E u \in Usernames, e \in Emails, p \in Passwords : Register(u, e, p)
    \/ NextSession
    \/ \E c \in AccessCookies : Health(c)
    \/ \E i \in Slots : TodoService(i)
    \/ \E d \in {1, 1000, 899000, RefreshTtlMs} : Tick(d)

Spec == Init /\ [][Next]_vars

\* ---------------------------------------------------------------------------
\* Properties
\* ---------------------------------------------------------------------------

\* The responses of every route behind app.use(authMiddleware) to a request
\* that carries cookie now, over every input the route reads.
RouteResults(cookie) ==
    {ListResult(todos, cookie, now)}
        \cup {GetResult(todos, cookie, now, id) : id \in TodoIds}
        \cup {CreateResult(todos, cookie, now, nextTodoId, t, d, st, u) :
                t \in Titles, d \in Descriptions, st \in Statuses, u \in BodyUserIds}
        \cup {UpdateResult(todos, cookie, now, id, t, d, st) :
                id \in TodoIds, t \in Titles, d \in Descriptions, st \in Statuses}
        \cup {SoftDeleteResult(todos, cookie, now, id) : id \in TodoIds}
        \cup {PermanentDeleteResult(todos, cookie, now, id) : id \in TodoIds}

\* No request of the todo service awaits its statement. The formulas below
\* that read the todos only are stated for these states: every table the
\* service reaches, it reaches with no request awaiting.
Quiet == \A i \in Slots : pending[i] = NoTodoRequest

\* The identity of the token in a cookie, as the middleware sets req.user.
IdentityOf(cookie) == Some([id |-> Val(cookie).userId, username |-> Val(cookie).username])

\* A request comes to await its statement on connection i in this step.
ReachesHandler(i) == pending[i] = NoTodoRequest /\ pending'[i] # NoTodoRequest

\* The token in the cookie was signed with JWT_SECRET and its expiry lies
\* ahead of the clock (exp counts seconds, the clock milliseconds).
SignedAndUnexpired(cookie) ==
    /\ cookie # None
    /\ Val(cookie).kind = "jwt"
    /\ Val(cookie).sig = JWT_SECRET
    /\ now < Val(cookie).exp * 1000

\* C1 (SpecSession): of the refresh requests that present the same refresh
\* token, at most one is answered 200: no refresh token is exchanged for new
\* tokens more than once.
C1_OneRacerWins == \A t \in DOMAIN rotations : rotations[t] <= 1

\* C2 (SpecSession): a refresh request that begins after its token was
\* exchanged by a successful refresh is never past its SELECT with tokens in
\* hand, and its SELECT is answered 401 with no tokens issued.
C2_SpentTokenRefused ==
    \A i \in Slots :
        (h[i].op = "refresh" /\ h[i].spentAtBegin) =>
            /\ h[i].pc = "select"
            /\ LET rows == SelectByRefreshToken(users, Val(h[i].cookie)) IN
               \A id \in (IF rows = {} THEN {0} ELSE rows) :
                  LET r == RefreshSelectResult(users, rows, id, now, nextToken) IN
                  /\ r.status = 401
                  /\ r.accessToken = None /\ r.newRefresh = None
                  /\ r.setAccess = None /\ r.setRefresh = None
                  /\ r.users = users

\* a refresh that presents an already exchanged token is in flight
C2_Witness ==
    \E i \in Slots :
        /\ h[i].op = "refresh" /\ h[i].pc = "select"
        /\ h[i].spentAtBegin
        /\ rotations[Val(h[i].cookie)] > 0

\* The refresh token values a refresh would accept for account id now.
AcceptedTokens(id) ==
    {t \in {EmptyString, ForeignToken} \cup (1..MaxTokens) : Accepts(users, id, t, now)}

\* The refresh token values that refreshes past their SELECT hold for
\* account id: each has been validated and is answered 200 with new tokens
\* when its UPDATE returns.
HonouredTokens(id) ==
    {Val(h[i].cookie) : i \in {j \in Slots : /\ h[j].op = "refresh"
                                            /\ h[j].pc = "update"
                                            /\ h[j].issued.userId = id}}

\* C3 (SpecSession): each account has at most one refresh token value at
\* any time that a refresh accepts, be it a refresh that reads the store now
\* or one that has read it and awaits its UPDATE; the step that stores a new
\* value for an account ends the acceptance of the value stored before.
C3_OneAcceptedValue ==
    /\ [](\A id \in DOMAIN users :
            Cardinality(AcceptedTokens(id) \cup HonouredTokens(id)) <= 1)
    /\ [][\A id \in DOMAIN users :
            (users'[id].refresh_token # users[id].refresh_token
                /\ users'[id].refresh_token # None
                /\ users[id].refresh_token # None) =>
                    Val(users[id].refresh_token)
                        \notin (AcceptedTokens(id) \cup HonouredTokens(id))']_vars

\* The cookie is absent, matches no account, or matches an account whose
\* stored expiry is in the past.
RefreshRefusable(cookie) ==
    \/ cookie = None
    \/ Val(cookie) = EmptyString
    \/ \A id \in DOMAIN users : users[id].refresh_token # cookie
    \/ \E id \in DOMAIN users :
          /\ users[id].refresh_token = cookie
          /\ Val(users[id].refresh_token_expires) < now

\* C4 (SpecExpiry): a refresh whose cookie is absent, matches no account or
\* matches an account whose stored expiry has passed is answered 401, sets
\* no cookie and leaves the credential store as it was.
C4_RefusedRefresh ==
    \A c \in RefreshCookies :
        RefreshRefusable(c) =>
            \A r \in RefreshOutcomes(users, c, now, nextToken) :
                /\ r.status = 401
                /\ r.setAccess = None /\ r.setRefresh = None
                /\ r.accessToken = None /\ r.newRefresh = None
                /\ r.users = users

\* a refresh is at its SELECT with a token that is stored and has expired
C4_Witness ==
    \E i \in Slots, id \in DOMAIN users :
        /\ h[i].op = "refresh" /\ h[i].pc = "select"
        /\ users[id].refresh_token = h[i].cookie
        /\ Val(users[id].refresh_token_expires) < now

\* For every cookie and every route and input, a handler runs only for a
\* token that is signed and unexpired when the middleware verifies it, with
\* the identity of that token.
VerifiedOnly ==
    \A c \in AccessCookies : \A r \in RouteResults(c) :
        /\ (r.user # None \/ r.queries > 0) =>
              /\ SignedAndUnexpired(c)
              /\ Val(c) \in MintedTokens
              /\ r.user = IdentityOf(c)
        /\ ~SignedAndUnexpired(c) => (r.user = None /\ r.queries = 0)

\* A request that awaits its statement carries the identity of a token the
\* identity service signed.
AwaitingIsSigned ==
    \A i \in Slots :
        pending[i] # NoTodoRequest =>
            \E t \in MintedTokens : t.sig = JWT_SECRET /\ pending[i].user = IdentityOf(Some(t))

\* A request comes to await its statement only in a step in which the
\* middleware verifies a signed and unexpired token, whose identity it
\* carries from then on.
VerifiedOnArrival ==
    \A i \in Slots :
        ReachesHandler(i) =>
            \E c \in AccessCookies :
                /\ SignedAndUnexpired(c)
                /\ Val(c) \in MintedTokens
                /\ pending'[i].user = IdentityOf(c)

\* C5 (SpecTodo): a request that reaches the handler of a todo route carries
\* the identity of a token the identity service signed and that had not
\* expired when the middleware verified it; a request with any other token
\* reaches no handler.
C5_HandlerSeesVerifiedIdentity ==
    /\ [](Quiet => VerifiedOnly)
    /\ []AwaitingIsSigned
    /\ [][VerifiedOnArrival]_vars

\* a handler ran for a verified request, and a forged token and an expired
\* one are at hand
C5_Witness ==
    /\ Quiet
    /\ todos # <<>>
    /\ \E c \in AccessCookies : \E r \in RouteResults(c) : r.user # None
    /\ Forged # {}
    /\ \E t \in MintedTokens : ~SignedAndUnexpired(Some(t))

\* C6 (SpecTodo): the middleware ends in exactly one of three ways: 401 when
\* no token is presented, 403 when the presented token fails verification
\* or has expired, and the call of the handler with req.user = {id, username}
\* of the token when it is signed with the secret and unexpired.
C6_MiddlewareVerdicts ==
    \A c \in AccessCookies :
        LET a == authMiddleware(c, now) IN
        /\ a.status \in {401, 403, 0}
        /\ a.status = 401 <=> (c = None \/ Val(c) = EmptyJwt)
        /\ a.status = 0 <=> SignedAndUnexpired(c)
        /\ a.status = 0 =>
              a.user = Some([id |-> Val(c).userId, username |-> Val(c).username])
        /\ a.status # 0 => a.user = None

\* the three verdicts occur in one state, after a handler has run
C6_Witness ==
    /\ nextTodoId > 1
    /\ \E c \in AccessCookies : authMiddleware(c, now).status = 401
    /\ \E c \in AccessCookies :
          c # None /\ Val(c).kind = "jwt" /\ authMiddleware(c, now).status = 403
    /\ \E c \in AccessCookies : authMiddleware(c, now).status = 0

\* C7 as stated (SpecTodo): every todo route answers 401 to a request whose
\* token is absent and to a request whose token is invalid.
C7_EveryRejectionIs401 ==
    \A c \in AccessCookies :
        ~SignedAndUnexpired(c) => \A r \in RouteResults(c) : r.status = 401

\* C7 (SpecTodo): every todo route answers 401 to a request without a token
\* and 403 to a request whose token is invalid or expired.
C7_Absent401Invalid403 ==
    Quiet => \A c \in AccessCookies : \A r \in RouteResults(c) :
        /\ (c = None \/ Val(c) = EmptyJwt) => r.status = 401
        /\ (c # None /\ Val(c) # EmptyJwt /\ ~SignedAndUnexpired(c)) => r.status = 403

\* todos exist, and a request with an invalid token is answered 403
C7_Witness ==
    /\ Quiet
    /\ todos # <<>>
    /\ \E c \in AccessCookies : \E r \in RouteResults(c) :
          c # None /\ ~SignedAndUnexpired(c) /\ r.status = 403

\* C8 (SpecVerify): an access token minted at time t expires 900 seconds
\* after its issue time; the todo service accepts it at every whole second
\* up to t + 899 s and rejects it at every whole second from t + 901 s on.
C8_AccessTokenLifetime ==
    \A m \in minted :
        /\ m.token.iat = m.at \div 1000
        /\ m.token.exp = m.token.iat + 900
        /\ (now - m.at) % 1000 = 0 =>
              /\ now - m.at <= 899000 =>
                    /\ authMiddleware(Some(m.token), now).status = 0
                    /\ ListResult(todos, Some(m.token), now).status = 200
              /\ now - m.at >= 901000 =>
                    /\ authMiddleware(Some(m.token), now).status = 403
                    /\ ListResult(todos, Some(m.token), now).status = 403

\* one token is 899 seconds old and another 901 seconds, neither minted on a
\* second boundary
C8_Witness ==
    \E m1 \in minted, m2 \in minted :
        /\ now - m1.at = 899000
        /\ now - m2.at = 901000
        /\ m1.at % 1000 # 0

\* C9 (SpecTodo): the middleware issues no store query, and a request it
\* rejects issues none and leaves the todos as they were.
C9_MiddlewareTouchesNoStore ==
    Quiet => \A c \in AccessCookies :
        /\ authMiddleware(c, now).queries = 0
        /\ \A r \in RouteResults(c) :
              r.user = None => (r.queries = 0 /\ r.todos = todos)

\* todos exist while requests with a forged and with no token are rejected
C9_Witness ==
    /\ Quiet
    /\ todos # <<>>
    /\ \E c \in AccessCookies :
          c # None /\ Val(c) \in Forged /\ authMiddleware(c, now).status = 403
    /\ authMiddleware(None, now).status = 401

\* The statement of the request q that awaits it, executed on the todos as
\* they are: it answers 404 and changes nothing when q addresses a todo of
\* another owner, lists only todos of req.user, and creates a todo of
\* req.user.
OwnTodosOnly(q) ==
    LET me == Val(q.user).id
        r == TodoHandler(q, todos, nextTodoId) IN
    /\ (/\ q.route \in {"get", "update", "softDelete", "permanentDelete"}
        /\ q.id \in DOMAIN todos
        /\ todos[q.id].user_id # me) =>
            r.status = 404 /\ r.rows = {} /\ r.todos = todos
    /\ q.route = "list" => \A row \in r.rows : row.user_id = me
    /\ q.route = "create" =>
            /\ r.status = 201
            /\ r.todos[nextTodoId].user_id = me
            /\ \A id \in DOMAIN todos : r.todos[id] = todos[id]

\* C10 (SpecTodo): a read, update, soft delete or permanent delete of a todo
\* of another owner is answered 404 and changes nothing; a list returns only
\* todos of the verified account; a created todo belongs to the verified
\* account whatever user_id the body carries.
C10_Ownership ==
    /\ \A i \in Slots : pending[i] # NoTodoRequest => OwnTodosOnly(pending[i])
    /\ Quiet => \A c \in AccessCookies :
        LET a == authMiddleware(c, now) IN
        a.status = 0 =>
            LET me == Val(a.user).id IN
            /\ \A id \in DOMAIN todos :
                  todos[id].user_id # me =>
                      \A r \in {GetResult(todos, c, now, id),
                                SoftDeleteResult(todos, c, now, id),
                                PermanentDeleteResult(todos, c, now, id)}
                            \cup {UpdateResult(todos, c, now, id, t, d, st) :
                                    t \in Titles, d \in Descriptions, st \in Statuses} :
                          r.status = 404 /\ r.rows = {} /\ r.todos = todos
            /\ \A row \in ListResult(todos, c, now).rows : row.user_id = me
            /\ \A t \in Titles, d \in Descriptions, st \in Statuses, u \in BodyUserIds :
                  LET r == CreateResult(todos, c, now, nextTodoId, t, d, st, u) IN
                  r.status = 201 =>
                      /\ r.todos[nextTodoId].user_id = me
                      /\ \A row \in r.rows : row.user_id = me
                      /\ \A id \in DOMAIN todos : r.todos[id] = todos[id]

\* two accounts own todos and both hold a valid token
C10_Witness ==
    /\ Quiet
    /\ \E id1 \in DOMAIN todos, id2 \in DOMAIN todos :
          todos[id1].user_id # todos[id2].user_id
    /\ \A u \in DOMAIN users :
          \E c \in AccessCookies :
              authMiddleware(c, now).status = 0 /\ Val(authMiddleware(c, now).user).id = u

\* C11 as stated (SpecSession): logout answers 200 and clears both cookies
\* for every body token and cookie, presented or not, matching or not, and a
\* second logout with the same input gives the response and the store of
\* the first.
C11_LogoutAlwaysSucceeds ==
    \A b \in RefreshCookies, c \in RefreshCookies :
        LET once == LogoutResult(users, b, c)
            twice == LogoutResult(once.users, b, c) IN
        /\ once.status = 200
        /\ once.setAccess = Some("cleared") /\ once.setRefresh = Some("cleared")
        /\ twice.status = once.status
        /\ twice.setAccess = once.setAccess /\ twice.setRefresh = once.setRefresh
        /\ twice.users = once.users

\* A refresh token value is stored in the table / is held by a handler that
\* has drawn it and not yet stored it.
StoredIn(tbl, t) == \E id \in DOMAIN tbl : tbl[id].refresh_token = Some(t)
Held(t) == \E i \in Slots : h[i].issued.newRefresh = Some(t)
\* The value was drawn and is neither stored nor on its way into the store.
Gone(t) == t \in 1..(nextToken - 1) /\ ~StoredIn(users, t) /\ ~Held(t)

\* Every refresh presenting cookie against table tbl is answered 401 and
\* issues nothing.
AllRefused(tbl, cookie) ==
    \A r \in RefreshOutcomes(tbl, cookie, now, nextToken) :
        /\ r.status = 401
        /\ r.accessToken = None /\ r.newRefresh = None
        /\ r.setAccess = None /\ r.setRefresh = None

\* A refresh token that has left the store is refused, and it never returns
\* to the store: no step stores or draws a value that was drawn before.
GoneIsRefused == \A t \in 1..MaxTokens : Gone(t) => AllRefused(users, Some(t))
GoneStaysGone == [][\A t \in 1..MaxTokens : Gone(t) => Gone(t)']_vars

\* C12 (SpecSession): a logout presenting the current refresh token of an
\* account answers 200 and leaves the account's stored token and expiry
\* absent and the token out of the store; from then on the token stays out
\* of the store, whatever logins, refreshes and logouts follow, and every
\* refresh presenting it is answered 401.
C12_LogoutEndsSession ==
    /\ [](\A id \in DOMAIN users, b \in RefreshCookies, c \in RefreshCookies :
            LET presented == IF Falsy(b) THEN c ELSE b
                r == LogoutResult(users, b, c) IN
            (users[id].refresh_token # None /\ presented = users[id].refresh_token) =>
                /\ r.status = 200
                /\ r.users[id].refresh_token = None
                /\ r.users[id].refresh_token_expires = None
                /\ ~StoredIn(r.users, Val(presented))
                /\ ~Held(Val(presented))
                /\ AllRefused(r.users, presented))
    /\ []GoneIsRefused
    /\ GoneStaysGone

\* one refresh token was ever drawn, it was stored by a login and is stored
\* no more, so a logout cleared it, and a refresh presenting it is in flight
C12_Witness ==
    /\ nextToken = 2
    /\ Gone(1)
    /\ rotations[1] = 0
    /\ \E i \in Slots :
          h[i].op = "refresh" /\ h[i].pc = "select" /\ h[i].cookie = Some(1)

\* C14 (SpecSession): the UPDATE of a login stores a refresh token value
\* that is in the store for no account, in place of the one the account
\* had; a refresh presenting the replaced value is answered 401 right after
\* the UPDATE and at every later time.
C14_LoginReplacesToken ==
    /\ [](\A i \in Slots :
            (h[i].op = "login" /\ h[i].pc = "update") =>
                LET id == h[i].issued.userId
                    old == users[id].refresh_token
                    r == StoreResult(users, h[i].issued, Message("Logged in")) IN
                /\ r.status = 200
                /\ h[i].issued.newRefresh # None
                /\ ~StoredIn(users, Val(h[i].issued.newRefresh))
                /\ r.users[id].refresh_token = h[i].issued.newRefresh
                /\ r.setRefresh = h[i].issued.newRefresh
                /\ old # None =>
                      /\ ~StoredIn(r.users, Val(old))
                      /\ ~Held(Val(old))
                      /\ AllRefused(r.users, old))
    /\ []GoneIsRefused
    /\ GoneStaysGone

\* account 1 logged in twice and nobody else did anything: it holds the
\* second token, and a refresh presenting the first one is in flight
C14_Witness ==
    /\ nextToken = 3
    /\ users[1].refresh_token = Some(2)
    /\ Gone(1)
    /\ rotations[1] = 0
    /\ \A m \in minted : m.token.userId = 1
    /\ \A id \in DOMAIN users : id # 1 => users[id].refresh_token = None
    /\ \E i \in Slots :
          h[i].op = "refresh" /\ h[i].pc = "select" /\ h[i].cookie = Some(1)

\* C13 (SpecClient): the requests of the browser are answered in turn: the
\* register 201, the login 200 with both cookies set, the profile 200 with
\* the username it registered, the logout 200 with both cookies cleared,
\* and the profile after the logout 401; the browser holds both cookies
\* from the login to the logout and none afterwards. While its login awaits
\* the store it holds no cookie; its profile awaits the store only with the
\* token of its cookie verified, and the profile after the logout is
\* stopped by the middleware.
C13_EndToEnd ==
    /\ Len(log) >= 1 => (log[1].op = "register" /\ log[1].status = 201)
    /\ Len(log) >= 2 =>
          /\ log[2].op = "login" /\ log[2].status = 200
          /\ log[2].setAccess # None /\ log[2].setRefresh # None
    /\ Len(log) \in {2, 3} => (client.accessToken # None /\ client.refreshToken # None)
    /\ Len(log) >= 3 =>
          /\ log[3].op = "profile" /\ log[3].status = 200
          /\ DOMAIN log[3].body = PublicColumns
          /\ log[3].body.username = client.username
          /\ log[3].body.email = client.email
    /\ Len(log) >= 4 =>
          /\ log[4].op = "logout" /\ log[4].status = 200
          /\ log[4].setAccess = Some("cleared") /\ log[4].setRefresh = Some("cleared")
          /\ client.accessToken = None /\ client.refreshToken = None
    /\ Len(log) >= 5 => (log[5].op = "profile" /\ log[5].status = 401)
    /\ h[1].op = "login" =>
          Len(log) = 1 /\ client.accessToken = None /\ client.refreshToken = None
    /\ h[1].op = "profile" => (Len(log) = 2 /\ h[1].user = client.accessToken)

\* the browser has made its five requests while time passed and somebody
\* else registered
C13_Witness ==
    /\ Len(log) = 5
    /\ ticks > 0
    /\ Cardinality(DOMAIN users) > 1

\* C15 (SpecExpiry): every access token the identity service has minted is
\* accepted by the middleware of the todo service and by that of the
\* identity service at every time before its expiry, whatever logins,
\* refreshes and logouts have happened since it was minted.
C15_NoRevocation ==
    \A m \in minted :
        now < m.token.exp * 1000 =>
            /\ authMiddleware(Some(m.token), now).status = 0
            /\ Val(authMiddleware(Some(m.token), now).user).id = m.token.userId
            /\ ListResult(todos, Some(m.token), now).status = 200
            /\ IdentityAuthMiddleware(Some(m.token), now).status = 0
            /\ Val(IdentityAuthMiddleware(Some(m.token), now).user).userId = m.token.userId
            /\ ProfileResult(users, Some(m.token), now).status = 200

\* an account logged in, refreshed and logged out, at different times: it
\* holds no refresh token, and its access tokens have not expired
C15_Witness ==
    \E id \in DOMAIN users :
        /\ users[id].refresh_token = None
        /\ \A i \in Slots : h[i].pc = "idle"
        /\ \E t \in DOMAIN rotations : rotations[t] > 0
        /\ Cardinality({m \in minted : m.token.userId = id}) >= 2
        /\ \A m \in minted : m.token.userId = id /\ now < m.token.exp * 1000

\* What a client sees of a response.
Response(r) == [status |-> r.status, body |-> r.body,
                setAccess |-> r.setAccess, setRefresh |-> r.setRefresh]

\* C16 (SpecSignup): a login naming an email no account has and a login
\* naming the email of an account with a password that is not the
\* account's, both fields non-empty, get the same response, 400 'Invalid
\* credentials' without cookies, and neither changes the store.
C16_SameRefusal ==
    \A e1 \in Emails, p1 \in Passwords, e2 \in Emails, p2 \in Passwords :
        (/\ e1 # "" /\ p1 # "" /\ e2 # "" /\ p2 # ""
         /\ \A id \in DOMAIN users : users[id].email # e1
         /\ \E id \in DOMAIN users :
               users[id].email = e2 /\ users[id].password # BcryptHash(p2)) =>
            \A r1 \in LoginOutcomes(users, e1, p1, now, nextToken),
               r2 \in LoginOutcomes(users, e2, p2, now, nextToken) :
                /\ Response(r1) = [status |-> 400, body |-> Error("Invalid credentials"),
                                   setAccess |-> None, setRefresh |-> None]
                /\ Response(r2) = Response(r1)
                /\ r1.users = users /\ r2.users = users

\* one account exists, an email is free, and a login with the account's
\* email and a wrong password is at its SELECT
C16_Witness ==
    /\ \E e \in Emails : e # "" /\ \A id \in DOMAIN users : users[id].email # e
    /\ \E id \in DOMAIN users :
          /\ h[1].op = "login" /\ h[1].pc = "select"
          /\ h[1].email = users[id].email
          /\ users[id].password # BcryptHash(h[1].password)

\* C17 (SpecSignup): a register with three non-empty fields and a username
\* and email no account has answers 201, and a login with the email and
\* password of a registered account, then and at any later time, answers
\* 200 and sets an accessToken cookie that both middlewares accept and
\* resolve to the id and username of that account.
C17_RegisterThenLogin ==
    /\ \A u \in Usernames, e \in Emails, p \in Passwords :
          (/\ u # "" /\ e # "" /\ p # ""
           /\ \A id \in DOMAIN users : users[id].username # u /\ users[id].email # e) =>
              LET r == RegisterResult(users, nextUserId, u, e, p, now) IN
              /\ r.status = 201
              /\ \A o \in LoginOutcomes(r.users, e, p, now, nextToken) :
                    /\ o.status = 200
                    /\ o.setAccess # None
                    /\ authMiddleware(o.setAccess, now).status = 0
                    /\ authMiddleware(o.setAccess, now).user =
                          Some([id |-> nextUserId, username |-> u])
                    /\ IdentityAuthMiddleware(o.setAccess, now).status = 0
    /\ \A id \in DOMAIN users, p \in Passwords :
          users[id].password = BcryptHash(p) =>
              \A o \in LoginOutcomes(users, users[id].email, p, now, nextToken) :
                  /\ o.status = 200
                  /\ o.setAccess # None
                  /\ authMiddleware(o.setAccess, now).status = 0
                  /\ authMiddleware(o.setAccess, now).user =
                        Some([id |-> id, username |-> users[id].username])
                  /\ IdentityAuthMiddleware(o.setAccess, now).status = 0
                  /\ Val(IdentityAuthMiddleware(o.setAccess, now).user).userId = id

\* an account was registered and a login with its credentials has minted
\* its access token, while a username and an email are still free
C17_Witness ==
    /\ \E id \in DOMAIN users, m \in minted :
          /\ m.token.userId = id
          /\ h[1].op = "login" /\ h[1].pc = "update" /\ h[1].issued.userId = id
    /\ \E u \in Usernames, e \in Emails :
          u # "" /\ e # "" /\ \A id \in DOMAIN users :
                                 users[id].username # u /\ users[id].email # e
    /\ nextUserId <= MaxUserId

\* C18 (SpecAccounts): a register with an empty username, email or password
\* answers 400, issues no query and leaves the table as it was; a register
\* answered 201 has as its body exactly id, username and email of the new
\* account, and every stored password is the bcrypt hash of the password
\* given, not the password.
C18_RegisterContract ==
    /\ \A u \in Usernames, e \in Emails, p \in Passwords :
          LET r == RegisterResult(users, nextUserId, u, e, p, now) IN
          /\ (u = "" \/ e = "" \/ p = "") =>
                /\ r.status = 400
                /\ r.queries = 0
                /\ r.users = users
          /\ r.status = 201 =>
                /\ DOMAIN r.body = {"id", "username", "email"}
                /\ r.body.id = nextUserId
                /\ r.body.username = u /\ r.body.email = e
                /\ DOMAIN r.users = DOMAIN users \cup {nextUserId}
                /\ r.users[nextUserId].password = <<"bcrypt", p>>
          /\ r.status \in {201, 400}
    /\ \A id \in DOMAIN users : users[id].password[1] = "bcrypt"

\* an account is stored while another register is at its INSERT
C18_Witness ==
    /\ DOMAIN users # {}
    /\ \E i \in Slots : h[i].op = "register" /\ h[i].pc = "insert"
    /\ nextUserId <= MaxUserId

\* The two registers in flight name the same username or the same email.
SameIdentity(i, j) == h[i].username = h[j].username \/ h[i].email = h[j].email

\* No account holds the username or the email of the register in slot i.
IdentityFree(i) ==
    \A id \in DOMAIN users :
        users[id].username # h[i].username /\ users[id].email # h[i].email

\* C19 (SpecAccounts): no two accounts share a username or an email; a
\* register naming a username or email that an account holds answers 400
\* 'Username or email already exists' and creates nothing; and of two
\* registers in flight that name the same username or email, the one whose
\* INSERT runs first decides: never both are answered 201, the others are
\* answered 400, and one is answered 201 exactly when one of them names a
\* username and an email that no account holds.
C19_UniqueIdentity ==
    /\ \A i \in DOMAIN users, j \in DOMAIN users :
          i # j => (users[i].username # users[j].username
                    /\ users[i].email # users[j].email)
    /\ \A u \in Usernames, e \in Emails, p \in Passwords :
          (/\ u # "" /\ e # "" /\ p # ""
           /\ \E id \in DOMAIN users : users[id].username = u \/ users[id].email = e) =>
              LET r == RegisterResult(users, nextUserId, u, e, p, now) IN
              /\ r.status = 400
              /\ r.body = Error("Username or email already exists")
              /\ r.users = users
    /\ \A i \in Slots, j \in Slots :
          (/\ i # j
           /\ h[i].op = "register" /\ h[i].pc = "insert"
           /\ h[j].op = "register" /\ h[j].pc = "insert"
           /\ SameIdentity(i, j)) =>
              LET first == RegisterResult(users, nextUserId, h[i].username,
                                          h[i].email, h[i].password, now)
                  second == RegisterResult(first.users, nextUserId + first.queries,
                                           h[j].username, h[j].email,
                                           h[j].password, now) IN
              /\ ~(first.status = 201 /\ second.status = 201)
              /\ (first.status = 201 \/ second.status = 201)
                    <=> (IdentityFree(i) \/ IdentityFree(j))
              /\ first.status = 201 <=> IdentityFree(i)
              /\ first.status \in {201, 400} /\ second.status \in {201, 400}
              /\ first.status = 400 => first.users = users
              /\ second.status = 400 => second.users = first.users

\* two registers naming the same username and different emails are at
\* their INSERT and the name is free
C19_Witness ==
    \E i \in Slots, j \in Slots :
        /\ i # j
        /\ h[i].op = "register" /\ h[i].pc = "insert"
        /\ h[j].op = "register" /\ h[j].pc = "insert"
        /\ h[i].username = h[j].username /\ h[i].email # h[j].email
        /\ \A id \in DOMAIN users :
              users[id].username # h[i].username /\ users[id].email # h[i].email
        /\ nextUserId < MaxUserId

\* The columns of users that no response may carry.
SecretColumns == {"password", "refresh_token", "refresh_token_expires"}

\* The bodies of register, login, refresh and logout on the store as it is,
\* over every input the routes read.
SessionBodies ==
    {RegisterResult(users, nextUserId, u, e, p, now).body :
        u \in Usernames, e \in Emails, p \in Passwords}
        \cup UNION {{o.body : o \in LoginOutcomes(users, e, p, now, nextToken)} :
                       e \in Emails, p \in Passwords}
        \cup UNION {{o.body : o \in RefreshOutcomes(users, c, now, nextToken)} :
                       c \in RefreshCookies}
        \cup {LogoutResult(users, b, c).body : b \in RefreshCookies, c \in RefreshCookies}

\* C20 (SpecBodies): a login or refresh answered 200 sets both tokens as
\* cookies and its body is the fixed message alone; every body of register,
\* login, refresh and logout is an error, a message or the three public
\* fields of the new account; the body of profile is the four public
\* columns of one row and the body of users the four public columns of
\* every row, so no body has a password, refresh_token or
\* refresh_token_expires field.
C20_BodiesCarryNoSecret ==
    /\ \A e \in Emails, p \in Passwords :
          \A o \in LoginOutcomes(users, e, p, now, nextToken) :
              o.status = 200 =>
                  /\ o.body = Message("Logged in")
                  /\ o.setAccess # None /\ o.setRefresh = Some(nextToken)
    /\ \A c \in RefreshCookies :
          \A o \in RefreshOutcomes(users, c, now, nextToken) :
              o.status = 200 =>
                  /\ o.body = Message("Tokens refreshed")
                  /\ o.setAccess # None /\ o.setRefresh = Some(nextToken)
    /\ \A b \in SessionBodies :
          \/ DOMAIN b = {"error"}
          \/ DOMAIN b = {"message"}
          \/ DOMAIN b = {"id", "username", "email"}
    /\ \A c \in AccessCookies :
          LET p == ProfileResult(users, c, now)
              u == UsersResult(users, c, now) IN
          /\ p.status # 200 => DOMAIN p.body = {"message"}
          /\ u.status # 200 => DOMAIN u.body = {"message"}
          /\ (p.status = 200 /\ p.body # NoBody) =>
                /\ DOMAIN p.body = PublicColumns
                /\ DOMAIN p.body \cap SecretColumns = {}
          /\ u.status = 200 =>
                /\ DOMAIN u.body = DOMAIN users
                /\ \A id \in DOMAIN u.body :
                      /\ DOMAIN u.body[id] = PublicColumns
                      /\ DOMAIN u.body[id] \cap SecretColumns = {}

\* an account holds a refresh token and a password hash, its access token
\* is accepted, and a refresh presenting the stored token is about to be
\* answered
C20_Witness ==
    /\ \E id \in DOMAIN users :
          /\ users[id].refresh_token # None
          /\ \E m \in minted :
                /\ m.token.userId = id
                /\ UsersResult(users, Some(m.token), now).status = 200
                /\ ProfileResult(users, Some(m.token), now).status = 200
    /\ h[1].op = "refresh" /\ h[1].pc = "update"
    /\ nextToken <= MaxTokens

\* The responses of login and refresh on the store as it is, over every
\* input the routes read.
LoginAndRefreshOutcomes ==
    UNION {LoginOutcomes(users, e, p, now, nextToken) : e \in Emails, p \in Passwords}
        \cup UNION {RefreshOutcomes(users, c, now, nextToken) : c \in RefreshCookies}

\* C21 as stated (SpecBodies): every login and refresh answered 200 sets
\* exactly two cookies, accessToken with max-age 15 minutes and refreshToken
\* with max-age 7 days, each with Path=/, HttpOnly, a same-site restriction,
\* and Secure exactly when the service runs in production.
C21_CookieAttributes ==
    \A o \in LoginAndRefreshOutcomes, production \in BOOLEAN :
        o.status = 200 =>
            LET cs == SetCookies(o, production) IN
            /\ {c.name : c \in cs} = {"accessToken", "refreshToken"}
            /\ Cardinality(cs) = 2
            /\ \A c \in cs :
                  /\ c.value # None
                  /\ c.options.maxAge = (IF c.name = "accessToken"
                                         THEN 15 * 60 * 1000
                                         ELSE 7 * 24 * 60 * 60 * 1000)
                  /\ c.options.path = "/"
                  /\ c.options.httpOnly
                  /\ c.options.secure = production
                  /\ c.options.sameSite # None

\* C23 (SpecExpiry): GET /profile answers 401 with no store query when the
\* accessToken cookie is absent, empty, not a token, signed with another
\* secret or expired; with a token signed with JWT_SECRET and unexpired it
\* answers 200 after one query, and its body is exactly id, username, email
\* and created_at of the account whose id the token carries.
C23_ProfileOwnFieldsOnly ==
    \A c \in AccessCookies :
        LET p == ProfileResult(users, c, now) IN
        /\ p.users = users
        /\ ~SignedAndUnexpired(c) =>
              /\ p.status = 401
              /\ p.queries = 0
              /\ DOMAIN p.body = {"message"}
        /\ SignedAndUnexpired(c) =>
              /\ p.status = 200
              /\ p.queries = 1
              /\ Val(c).userId \in DOMAIN users
              /\ DOMAIN p.body = {"id", "username", "email", "created_at"}
              /\ p.body.id = Val(c).userId
              /\ p.body.username = users[Val(c).userId].username
              /\ p.body.email = users[Val(c).userId].email
              /\ p.body.created_at = users[Val(c).userId].created_at
              /\ \A other \in DOMAIN users :
                    other # Val(c).userId =>
                        (p.body.id # other /\ p.body.email # users[other].email)

\* the access token of one account has expired and the other account, not
\* the first row of the table, holds an unexpired one
C23_Witness ==
    /\ \E m \in minted : m.token.sig = JWT_SECRET /\ now >= m.token.exp * 1000
    /\ \E m \in minted : m.token.userId = 2 /\ SignedAndUnexpired(Some(m.token))
    /\ 1 \in DOMAIN users

\* C24 as stated (SpecSession): a refresh that read its token before a
\* logout cleared it stores no refresh token afterwards: when a refresh
\* reaches its UPDATE and the account it read holds no refresh token any
\* more, the account holds none after the UPDATE either, so once the logout
\* has answered 200 and the refresh has completed the stored token is
\* absent.
C24_LogoutBeatsRefresh ==
    [][\A i \in Slots :
          (/\ h[i].op = "refresh" /\ h[i].pc = "update"
           /\ h'[i].pc = "idle"
           /\ users[h[i].issued.userId].refresh_token = None)
              => users'[h[i].issued.userId].refresh_token = None]_vars

\* Every row of tbl has a refresh token and an expiry, or neither.
Paired(tbl) ==
    \A id \in DOMAIN tbl :
        (tbl[id].refresh_token = None) <=> (tbl[id].refresh_token_expires = None)

\* C25 (SpecBodies): every account has refresh_token and
\* refresh_token_expires both absent or both present; the row a register
\* creates has neither, the row a login or refresh answered 200 has written
\* has both, the rows a logout has matched have neither, and each of them
\* leaves every row paired.
C25_TokenAndExpiryTogether ==
    /\ Paired(users)
    /\ \A u \in Usernames, e \in Emails, p \in Passwords :
          LET r == RegisterResult(users, nextUserId, u, e, p, now) IN
          /\ Paired(r.users)
          /\ r.status = 201 =>
                /\ r.users[nextUserId].refresh_token = None
                /\ r.users[nextUserId].refresh_token_expires = None
    /\ \A o \in LoginAndRefreshOutcomes :
          /\ Paired(o.users)
          /\ o.status = 200 =>
                /\ o.users[o.userId].refresh_token = o.setRefresh
                /\ o.users[o.userId].refresh_token # None
                /\ o.users[o.userId].refresh_token_expires # None
    /\ \A b \in RefreshCookies, c \in RefreshCookies :
          LET r == LogoutResult(users, b, c) IN
          /\ Paired(r.users)
          /\ \A id \in DOMAIN users :
                r.users[id] # users[id] =>
                    /\ r.users[id].refresh_token = None
                    /\ r.users[id].refresh_token_expires = None

\* one account holds a token and an expiry, another was registered and has
\* never logged in, and the one that holds a token can log out
C25_Witness ==
    /\ \E id \in DOMAIN users :
          users[id].refresh_token # None /\ users[id].refresh_token_expires # None
    /\ \E id \in DOMAIN users :
          users[id].refresh_token = None /\ users[id].refresh_token_expires = None
    /\ \E c \in RefreshCookies : LogoutResult(users, None, c).users # users

\* The token a logout presents: the body's when it is truthy, else the
\* cookie's.
Presented(bodyTok, cookie) == IF Falsy(bodyTok) THEN cookie ELSE bodyTok

\* C26 (SpecSession): a logout changes exactly the accounts whose stored
\* refresh token is the presented value, the body's when the body gives one
\* and the cookie's otherwise, and clears their token and expiry; when no
\* account stores the presented value (superseded, never issued, absent)
\* every row stays as it was and every refresh token that was accepted
\* before is accepted after.
C26_LogoutFrame ==
    \A b \in RefreshCookies, c \in RefreshCookies :
        LET tok == Presented(b, c)
            r == LogoutResult(users, b, c) IN
        /\ DOMAIN r.users = DOMAIN users
        /\ \A id \in DOMAIN users :
              IF ~Falsy(tok) /\ users[id].refresh_token = tok
              THEN /\ r.users[id] = [users[id] EXCEPT !.refresh_token = None,
                                                      !.refresh_token_expires = None]
              ELSE r.users[id] = users[id]
        /\ (\A id \in DOMAIN users : users[id].refresh_token # tok) =>
              /\ r.users = users
              /\ \A id \in DOMAIN users, t \in 1..MaxTokens :
                    Accepts(users, id, t, now) => Accepts(r.users, id, t, now)
        /\ ~Falsy(b) => r = LogoutResult(users, b, None)

\* an account holds a refresh token that a refresh would accept, and a
\* token it held before has been rotated away
C26_Witness ==
    /\ \E id \in DOMAIN users, t \in 1..MaxTokens : Accepts(users, id, t, now)
    /\ \E t \in 1..MaxTokens :
          /\ Spent(t)
          /\ \A id \in DOMAIN users : users[id].refresh_token # Some(t)
          /\ Some(t) \in RefreshCookies

\* The instants at which a refresh presenting the token of row is tried:
\* now, the stored expiry, and one millisecond before and after it, as far
\* as the expiry a success computes stays within the 32-bit integers.
Instants(row) ==
    {ms \in {now, Val(row.refresh_token_expires) - 1, Val(row.refresh_token_expires),
             Val(row.refresh_token_expires) + 1} :
        ms > Val(row.refresh_token_expires) \/ ms <= 2 * RefreshTtlMs}

\* C27 (SpecExpiry): a login or refresh answered 200 at time t stores the
\* expiry t + 7 days with the new refresh token whatever expiry was stored
\* before, and a handler between its SELECT and its UPDATE holds the expiry
\* 7 days after the instant it issued its tokens; a refresh presenting a
\* stored token is answered 401 'Refresh token expired' at every instant
\* after the stored expiry and 200 at the expiry and before it.
C27_ExpirySevenDays ==
    /\ \A o \in LoginAndRefreshOutcomes :
          o.status = 200 =>
              /\ o.users[o.userId].refresh_token_expires = Some(now + 604800000)
              /\ o.users[o.userId].refresh_token = Some(nextToken)
    /\ \A i \in Slots :
          h[i].pc = "update" =>
              \E m \in minted :
                  /\ m.token = Val(h[i].issued.accessToken)
                  /\ h[i].issued.newExpiry = Some(m.at + 604800000)
                  /\ m.at <= now
    /\ \A id \in DOMAIN users :
          users[id].refresh_token # None =>
              \A ms \in Instants(users[id]) :
                  \A o \in RefreshOutcomes(users, users[id].refresh_token, ms, nextToken) :
                      IF ms > Val(users[id].refresh_token_expires)
                      THEN /\ o.status = 401
                           /\ o.body = Message("Refresh token expired")
                           /\ o.users = users
                           /\ o.setAccess = None /\ o.setRefresh = None
                      ELSE /\ o.status = 200
                           /\ o.users[id].refresh_token_expires = Some(ms + 604800000)

\* the clock stands exactly at the stored expiry of a token stored seven
\* days ago, and a refresh presenting it has issued its new tokens
C27_Witness ==
    \E id \in DOMAIN users :
        /\ users[id].refresh_token # None
        /\ users[id].refresh_token_expires = Some(now)
        /\ now = 604800000
        /\ h[1].op = "refresh" /\ h[1].pc = "update"
        /\ h[1].issued.userId = id
        /\ h[1].issued.newExpiry = Some(2 * 604800000)

\* C28 (SpecTodo): a soft delete by the owner answers 200, sets the status
\* of the todo to 'Deleted' and changes nothing else; the owner's list and
\* get still return the record and an update of it still answers 200 and
\* takes effect. A permanent delete by the owner answers 200 and removes
\* the record and no other; get, update, soft delete and permanent delete
\* of that id then answer 404 and change nothing, and the owner's list no
\* longer has it.
C28_SoftAndPermanentDelete ==
    Quiet => \A c \in AccessCookies, id \in TodoIds :
        LET auth == authMiddleware(c, now) IN
        (/\ auth.status = 0
         /\ id \in DOMAIN todos
         /\ todos[id].user_id = Val(auth.user).id) =>
            LET sd == SoftDeleteResult(todos, c, now, id)
                pd == PermanentDeleteResult(todos, c, now, id) IN
            /\ sd.status = 200
            /\ sd.todos = [todos EXCEPT ![id].status = Some("Deleted")]
            /\ sd.rows = {sd.todos[id]}
            /\ sd.todos[id] \in ListResult(sd.todos, c, now).rows
            /\ GetResult(sd.todos, c, now, id).status = 200
            /\ GetResult(sd.todos, c, now, id).rows = {sd.todos[id]}
            /\ \A t \in Titles, d \in Descriptions, st \in Statuses :
                  LET up == UpdateResult(sd.todos, c, now, id, t, d, st) IN
                  /\ up.status = 200
                  /\ up.todos[id] = [sd.todos[id] EXCEPT !.title = t, !.description = d,
                                                         !.status = st]
            /\ pd.status = 200
            /\ DOMAIN pd.todos = DOMAIN todos \ {id}
            /\ \A other \in DOMAIN pd.todos : pd.todos[other] = todos[other]
            /\ \A row \in ListResult(pd.todos, c, now).rows : row.id # id
            /\ GetResult(pd.todos, c, now, id).status = 404
            /\ SoftDeleteResult(pd.todos, c, now, id).status = 404
            /\ SoftDeleteResult(pd.todos, c, now, id).todos = pd.todos
            /\ PermanentDeleteResult(pd.todos, c, now, id).status = 404
            /\ PermanentDeleteResult(pd.todos, c, now, id).todos = pd.todos
            /\ \A t \in Titles, d \in Descriptions, st \in Statuses :
                  /\ UpdateResult(pd.todos, c, now, id, t, d, st).status = 404
                  /\ UpdateResult(pd.todos, c, now, id, t, d, st).todos = pd.todos

\* a todo was soft deleted and is still stored, its owner holds a valid
\* token, and an earlier todo was permanently deleted
C28_Witness ==
    /\ Quiet
    /\ \E id \in DOMAIN todos :
          /\ todos[id].status = Some("Deleted")
          /\ \E c \in AccessCookies :
                /\ authMiddleware(c, now).status = 0
                /\ Val(authMiddleware(c, now).user).id = todos[id].user_id
    /\ \E id \in TodoIds : id < nextTodoId /\ id \notin DOMAIN todos

\* A store call is pending.
InFlight == req.pc \in {"first", "second"}

\* The step is one in which the pending store call fails.
FailureStep ==
    /\ InFlight
    /\ sent' # sent
    /\ sent'[Len(sent')].status = 500

\* C22 (SpecServe): a 500 is the only response of its request and sets or
\* clears no cookie; the step in which a store call of register, login,
\* refresh, logout, profile or users fails answers 500, ends the request
\* without another store call and leaves the store as it was; no request
\* sends a statement twice; and login and refresh set their cookies in no
\* step but the one in which their UPDATE returns, having stored the
\* refresh token the cookie carries.
C22_StorageFailure ==
    /\ [](/\ \A k \in DOMAIN sent :
                sent[k].status = 500 =>
                    /\ Len(sent) = 1
                    /\ req.pc = "done"
                    /\ sent[k].setAccess = None /\ sent[k].setRefresh = None
          /\ req.pc = "first" => req.calls = <<Statement(req.route)>>
          /\ req.pc = "second" =>
                (req.calls = <<"select", "update">> /\ req.route \in TwoCalls))
    /\ [][/\ FailureStep =>
                /\ sent' = <<sent'[1]>>
                /\ sent'[1].setAccess = None /\ sent'[1].setRefresh = None
                /\ req'.pc = "done"
                /\ users' = users /\ todos' = todos
          /\ (req.route \in TwoCalls /\ sent' # sent) =>
                IF req.pc = "second" /\ ~FailureStep
                THEN /\ sent' = <<Reply(200, req.issued.accessToken,
                                        req.issued.newRefresh)>>
                     /\ req.issued.accessToken # None /\ req.issued.newRefresh # None
                     /\ users'[req.issued.userId].refresh_token = req.issued.newRefresh
                ELSE /\ sent'[1].setAccess = None /\ sent'[1].setRefresh = None
                     /\ users' = users
          /\ (~InFlight /\ sent' # <<>>) =>
                (sent'[1].setAccess = None /\ sent'[1].setRefresh = None)]_vars

\* the UPDATE of a login failed after the tokens were issued: the response
\* is a 500 without cookies and the account holds no refresh token
C22_Witness ==
    /\ req.pc = "done"
    /\ sent = <<Reply(500, None, None)>>
    /\ minted # {}
    /\ nextToken = 2
    /\ \E id \in DOMAIN users : users[id].refresh_token = None

\* C29 (SpecServe): every request to register, login, refresh, logout,
\* profile, users and to each todo route gets exactly one response: none is
\* written while a store call is pending, exactly one has been written when
\* the request is over, whether it ended in the validation, the
\* middleware, a success or a failing store call; and every request with a
\* store call pending is eventually over, given that the call returns or
\* fails.
C29_ExactlyOneResponse ==
    /\ [](/\ req.pc \in {"idle", "first", "second", "done"}
          /\ req.pc = "idle" => sent = <<>>
          /\ InFlight => sent = <<>>
          /\ req.pc = "done" => Len(sent) = 1 /\ sent[1].status # 0)
    /\ (InFlight ~> req.pc = "done")

\* a refresh is between its SELECT and its UPDATE, with a todo stored and the
\* last register answered by now refused as a duplicate
C29_Witness ==
    /\ req.route = "refresh" /\ req.pc = "second"
    /\ sent = <<>>
    /\ DOMAIN todos # {}
    /\ nextUserId > 2
====
